---- MODULE Spec2Model ----
(***************************************************************************)
(* Point-of-sale checkout of grocery-grid-guardian: the POS page's cart   *)
(* (addToCart / removeFromCart / updateQuantity / total) and the          *)
(* completeSale flow (sale insert, sale_items insert, one stock update    *)
(* per cart line) against the remote backend tables sales, sale_items     *)
(* and products.                                                          *)
(*                                                                         *)
(* Each element of Sessions is one mounted POS page (one cashier's tab).  *)
(* completeSale is an async function: every await is one step of the      *)
(* model.  The request it awaits is held in net; the step that resolves   *)
(* it applies the request at the backend (or fails it) and runs the       *)
(* continuation up to the next await, which issues the next request.      *)
(* `cart` inside an invocation is the array captured by the closure when  *)
(* completeSale was called; later cart edits do not change it.            *)
(*                                                                         *)
(* The Shifts page (fetchShifts, startShift, endShift, confirmDelete) is  *)
(* modelled the same way: each element of Tabs is one mounted Shifts page *)
(* of the cashier, shiftNet holds the requests its handlers await, and    *)
(* `now` is the clock read by new Date() and by the backend's created_at. *)
(* The Inventory page's filter is the operator filteredProducts over the  *)
(* page's products, search text, category and stock bucket.               *)
(***************************************************************************)
EXTENDS Integers, Sequences, FiniteSets, TLC

\* ---------------------------------------------------------------- bounds
MaxQty == 2
MaxCalls == 2
InitStock == 2
MaxTerm == 2     \* length of the search text
MaxTime == 2     \* the clock runs from 0 to MaxTime
MaxProducts == 2 \* products inserted by the add form
MaxShifts == 2   \* shifts inserted, and handler calls of one tab in flight

\* ------------------------------------------------------------- universes
Sessions == {"s1", "s2"}
ProductIds == {"A", "B"}
NoUser == "null"
Calls == 1..MaxCalls
Deltas == (0 - MaxQty)..MaxQty

VARIABLES
  stock,       \* backend products.stock_quantity, by product id
  sales,       \* backend table sales (sequence of rows, in insert order)
  sale_items,  \* backend table sale_items (set of rows)
  saleSeq,     \* number of sales rows inserted so far (ids are never reused)
  products,    \* per page: the loaded product list (useState products)
  loading,     \* per page: useState loading
  fetched,     \* per page: state of the fetch issued at mount
  cart,        \* per page: useState cart
  toasts,      \* per page: titles of the notifications raised so far
  inv,         \* completeSale invocations
  net,         \* requests awaiting their response
  now,             \* the clock (new Date() of the pages, now() of the backend)
  shiftsTable,     \* backend table shifts (set of rows)
  shiftSeq,        \* number of shifts rows inserted so far (ids are never reused)
  shiftNet,        \* requests of the Shifts pages awaiting their response
  shifts,          \* per Shifts tab: useState shifts
  activeShift,     \* per Shifts tab: useState activeShift
  shiftLoading,    \* per Shifts tab: useState loading
  startShiftOpen,  \* per Shifts tab: useState startShiftOpen
  endShiftOpen,    \* per Shifts tab: useState endShiftOpen
  deleteDialogOpen,\* per Shifts tab: useState deleteDialogOpen
  shiftToDelete,   \* per Shifts tab: useState shiftToDelete
  shiftToasts,     \* per Shifts tab: title of the notification raised last
  inventoryProducts, \* Inventory page: useState products
  searchTerm,        \* Inventory page: useState searchTerm
  selectedCategory,  \* Inventory page: useState selectedCategory
  stockFilter,       \* Inventory page: useState stockFilter
  salesList,            \* Sales page: useState sales
  salesLoading,         \* Sales page: useState loading
  saleDeleteDialogOpen, \* Sales page: useState deleteDialogOpen
  saleToDelete,         \* Sales page: useState saleToDelete (its id, 0 for null)
  isDeleting,           \* Sales page: useState isDeleting
  salesToast,           \* Sales page: title of the notification raised last
  salesNet,             \* requests of the Sales page awaiting their response
  productRows,      \* backend table products: the rows inserted by the add form
  tabProducts,      \* per Inventory tab: useState products
  tabCategories,    \* per Inventory tab: useState categories
  inventoryLoading, \* per Inventory tab: useState loading
  addProductOpen,   \* per Inventory tab: useState addProductOpen
  isSubmitting,     \* per Inventory tab: useState isSubmitting
  inventoryToast,   \* per Inventory tab: title of the notification raised last
  inventoryNet,     \* requests of the Inventory tabs awaiting their response
  route,        \* the path the router shows
  signedIn,     \* whether the auth client holds a session
  sessionNet,   \* the pages whose getSession() at mount awaits its answer
  lastNavigate  \* the navigate() call made last: by whom, on which page, where to

shiftVars == <<now, shiftsTable, shiftSeq, shiftNet, shifts, activeShift,
               shiftLoading, startShiftOpen, endShiftOpen, deleteDialogOpen,
               shiftToDelete, shiftToasts>>
inventoryVars == <<inventoryProducts, searchTerm, selectedCategory, stockFilter>>
salesPageVars == <<salesList, salesLoading, saleDeleteDialogOpen, saleToDelete,
                   isDeleting, salesToast, salesNet>>
addProductVars == <<productRows, tabProducts, tabCategories, inventoryLoading,
                    addProductOpen, isSubmitting, inventoryToast, inventoryNet>>
authVars == <<route, signedIn, sessionNet, lastNavigate>>
\* the state of the pages other than POS
elsewhere == <<shiftVars, inventoryVars, salesPageVars, addProductVars, authVars>>
vars == <<stock, sales, sale_items, saleSeq, products, loading, fetched, cart, toasts,
          inv, net, elsewhere>>
backend == <<stock, sales, sale_items, saleSeq>>
\* the state of the POS pages
posPage == <<products, loading, fetched, cart, toasts, inv, net>>
posVars == <<backend, posPage>>
\* the state of the pages other than Shifts
outsideShifts == <<posVars, inventoryVars, salesPageVars, addProductVars, authVars>>
\* the state of the pages other than Inventory
outsideInventory == <<posVars, shiftVars, salesPageVars, addProductVars, authVars>>
\* the state outside the add-product flow of the Inventory tabs
outsideAddProduct == <<posVars, shiftVars, salesPageVars, inventoryVars, authVars>>
\* the state of the pages, but for the router and the auth client
outsideAuth == <<posVars, shiftVars, salesPageVars, inventoryVars, addProductVars>>
\* the state of the pages other than Sales, but for the tables it deletes from
outsideSales == <<stock, saleSeq, posPage, shiftVars, inventoryVars, addProductVars,
                  authVars>>

\* --------------------------------------------------------- inventory: data
\* text is a sequence of characters; null (category, selectedCategory) is
\* NullText
NullText == <<"null">>
\* the stock threshold of the "low" bucket
LowStock == 10
\* stock levels around the buckets' thresholds
StockLevels == {0, LowStock, LowStock + 1}

\* the products table in name order, with the stock levels given
Catalog(q1, q2, q3) ==
  << [id |-> 1, name |-> <<"A", "b">>, sku |-> <<"x", "1">>,
      category |-> <<"B", "a">>, stock_quantity |-> q1],
     [id |-> 2, name |-> <<"x", "B">>, sku |-> <<"a", "a">>,
      category |-> NullText, stock_quantity |-> q2],
     [id |-> 3, name |-> <<"x", "x">>, sku |-> <<"x", "3">>,
      category |-> <<"a", "b">>, stock_quantity |-> q3] >>

Catalogs == {Catalog(q1, q2, q3) : q1 \in StockLevels, q2 \in StockLevels, q3 \in StockLevels}

\* what can be typed into the search field
Letters == {"a", "A", "b", "B"}
RECURSIVE TextsOfLength(_)
TextsOfLength(n) ==
  IF n = 0 THEN {<<>>}
  ELSE {Append(w, ch) : w \in TextsOfLength(n - 1), ch \in Letters}
Terms == UNION {TextsOfLength(n) : n \in 0..MaxTerm}

\* ------------------------------------------------------------ shifts: data
\* the mounted Shifts pages: tabs of one cashier
Tabs == {"t1", "t2"}
\* null in a numeric column (end_time, ending_cash, total_sales)
Null == 0 - 1
NoNotes == "null"
\* interface Shift; id 0 stands for "no shift" (null)
NoShift ==
  [id |-> 0, cashier_id |-> NoUser, start_time |-> Null, end_time |-> Null,
   starting_cash |-> Null, ending_cash |-> Null, total_sales |-> Null,
   status |-> "null", notes |-> NoNotes]

\* ---------------------------------------------------- shifts: requests
\* a request of tab t: `row`, `cash`, `notes` and `list` are what the
\* handler's closure holds (activeShift or shiftToDelete, the parsed amount,
\* shiftNotes, shifts); `time` is the new Date() put into the request and
\* `sum` the computed totalSales
SReq(t, tag, op, row, cash, time, sum, notes, list) ==
  [tab |-> t, tag |-> tag, op |-> op, row |-> row, cash |-> cash,
   time |-> time, sum |-> sum, notes |-> notes, list |-> list]

\* the fetch issued by useEffect at mount
FetchReq(t) == SReq(t, 1, "shifts.select", NoShift, 0, 0, 0, NoNotes, <<>>)

\* ------------------------------------------------------------- routes
\* <Route path=... element=...>
ProtectedRoutes == {"/dashboard", "/pos", "/inventory", "/sales", "/shifts", "/settings"}
Routes == {"/auth"} \cup ProtectedRoutes

\* a call of navigate(to) made by `by` of the page mounted at path `at`
Navigation(by, at, to) == [by |-> by, at |-> at, to |-> to]

\* -------------------------------------------------- inventory: requests
\* the mounted Inventory pages
InventoryTabs == {"i1", "i2"}

\* interface NewProduct: the text of the fields of the add form
NewProduct(sku, name, price, stock_quantity, category) ==
  [sku |-> sku, name |-> name, price |-> price,
   stock_quantity |-> stock_quantity, category |-> category]

\* a request of Inventory tab t: `form` is productToSubmit and `list`, `cats`
\* are the products and categories of the handler's closure
InventoryReq(t, op, form, list, cats) ==
  [tab |-> t, op |-> op, form |-> form, list |-> list, cats |-> cats]

\* the fetch issued by useEffect at mount
ProductsFetch(t) ==
  InventoryReq(t, "products.select", NewProduct(<<>>, <<>>, 0, 0, <<>>), <<>>, <<>>)

\* ------------------------------------------------------ sales: requests
\* a request of the Sales page; `sale` is saleToDelete.id of the closure
SalesReq(op, sale) == [op |-> op, sale |-> sale]

\* -------------------------------------------------------- backend catalog
\* unit price column of the products table (Product.Harga)
Harga == [p \in ProductIds |-> IF p = "A" THEN 10 ELSE 5]

\* authenticated identity of each page's cashier (user.id)
UserOf == [s \in Sessions |-> IF s = "s1" THEN "u1" ELSE "u2"]

\* select("*").order("name") on products: the rows in name order
ProductRows(stk) ==
  << [id |-> "A", Harga |-> Harga["A"], stock_quantity |-> stk["A"]],
     [id |-> "B", Harga |-> Harga["B"], stock_quantity |-> stk["B"]] >>

\* ------------------------------------------------------------------ cart
RECURSIVE SumSubtotals(_)
SumSubtotals(c) ==
  IF c = <<>> THEN 0 ELSE c[1].subtotal + SumSubtotals(Tail(c))

\* const total = cart.reduce((sum, item) => sum + item.subtotal, 0)
total(c) == SumSubtotals(c)

\* mutant of InCart: only the first entry is looked at
InCartFirstOnly(currentCart, productId) ==
  currentCart # <<>> /\ currentCart[1].id = productId

\* currentCart.find(item => item.id === product.id)
InCart(currentCart, productId) ==
  \E i \in DOMAIN currentCart : currentCart[i].id = productId

\* mutant of AddToCartUpdate: subtotal from the quantity before the increment
AddToCartStaleSubtotal(currentCart, product) ==
  IF InCart(currentCart, product.id)
  THEN [i \in DOMAIN currentCart |->
          IF currentCart[i].id = product.id
          THEN [currentCart[i] EXCEPT !.quantity = @ + 1,
                                      !.subtotal = currentCart[i].quantity * product.Harga]
          ELSE currentCart[i]]
  ELSE Append(currentCart,
              [id |-> product.id, Harga |-> product.Harga,
               stock_quantity |-> product.stock_quantity,
               quantity |-> 1, subtotal |-> product.Harga])

\* mutant of AddToCartUpdate: no lookup of an existing entry
AddToCartAlwaysAppend(currentCart, product) ==
  Append(currentCart,
         [id |-> product.id, Harga |-> product.Harga,
          stock_quantity |-> product.stock_quantity,
          quantity |-> 1, subtotal |-> product.Harga])

\* the updater passed to setCart by addToCart
AddToCartUpdate(currentCart, product) ==
  IF InCart(currentCart, product.id)
  THEN [i \in DOMAIN currentCart |->
          IF currentCart[i].id = product.id
          THEN [currentCart[i] EXCEPT !.quantity = @ + 1,
                                      !.subtotal = (currentCart[i].quantity + 1) * product.Harga]
          ELSE currentCart[i]]
  ELSE Append(currentCart,
              [id |-> product.id, Harga |-> product.Harga,
               stock_quantity |-> product.stock_quantity,
               quantity |-> 1, subtotal |-> product.Harga])

\* the updater passed to setCart by removeFromCart
RemoveFromCartUpdate(currentCart, productId) ==
  SelectSeq(currentCart, LAMBDA item : item.id # productId)

Max(a, b) == IF a >= b THEN a ELSE b

\* mutant of UpdateQuantityUpdate: clamps at zero instead of one
UpdateQuantityClampZero(currentCart, productId, delta) ==
  [i \in DOMAIN currentCart |->
     IF currentCart[i].id = productId
     THEN [currentCart[i] EXCEPT
             !.quantity = Max(0, currentCart[i].quantity + delta),
             !.subtotal = Max(0, currentCart[i].quantity + delta) * currentCart[i].Harga]
     ELSE currentCart[i]]

\* the updater passed to setCart by updateQuantity
UpdateQuantityUpdate(currentCart, productId, delta) ==
  [i \in DOMAIN currentCart |->
     IF currentCart[i].id = productId
     THEN [currentCart[i] EXCEPT
             !.quantity = Max(1, currentCart[i].quantity + delta),
             !.subtotal = Max(1, currentCart[i].quantity + delta) * currentCart[i].Harga]
     ELSE currentCart[i]]

QtyBounded(c) == \A i \in DOMAIN c : c[i].quantity <= MaxQty

\* ----------------------------------------------------------------- Init
IdleInv ==
  [pc |-> "idle", sess |-> "s1", cart |-> <<>>, user |-> NoUser, sale |-> 0,
   k |-> 0, issued |-> <<>>, acked |-> 0,
   base |-> [p \in ProductIds |-> 0], alone |-> TRUE]

InitPages ==
  /\ stock = [p \in ProductIds |-> InitStock]
  /\ sales = <<>>
  /\ sale_items = {}
  /\ saleSeq = 0
  /\ products = [s \in Sessions |-> <<>>]
  /\ loading = [s \in Sessions |-> TRUE]
  /\ fetched = [s \in Sessions |-> "pending"]
  /\ cart = [s \in Sessions |-> <<>>]
  /\ toasts = [s \in Sessions |-> {}]
  /\ inv = [c \in Calls |-> IdleInv]
  /\ net = {}
  /\ now = 0
  /\ shiftsTable = {}
  /\ shiftSeq = 0
  /\ shiftNet = {FetchReq(t) : t \in Tabs}
  /\ shifts = [t \in Tabs |-> <<>>]
  /\ activeShift = [t \in Tabs |-> NoShift]
  /\ shiftLoading = [t \in Tabs |-> TRUE]
  /\ startShiftOpen = [t \in Tabs |-> FALSE]
  /\ endShiftOpen = [t \in Tabs |-> FALSE]
  /\ deleteDialogOpen = [t \in Tabs |-> FALSE]
  /\ shiftToDelete = [t \in Tabs |-> NoShift]
  /\ shiftToasts = [t \in Tabs |-> "none"]
  /\ searchTerm = <<>>
  /\ selectedCategory = NullText
  /\ stockFilter = "all"
  /\ salesList = <<>>
  /\ salesLoading = TRUE
  /\ saleDeleteDialogOpen = FALSE
  /\ saleToDelete = 0
  /\ isDeleting = FALSE
  /\ salesToast = "none"
  /\ salesNet = {SalesReq("sales.select", 0)}
  /\ productRows = <<>>
  /\ tabProducts = [t \in InventoryTabs |-> <<>>]
  /\ tabCategories = [t \in InventoryTabs |-> <<>>]
  /\ inventoryLoading = [t \in InventoryTabs |-> TRUE]
  /\ addProductOpen = [t \in InventoryTabs |-> FALSE]
  /\ isSubmitting = [t \in InventoryTabs |-> FALSE]
  /\ inventoryToast = [t \in InventoryTabs |-> "none"]
  /\ inventoryNet = {ProductsFetch(t) : t \in InventoryTabs}
  /\ route = "/auth"
  /\ signedIn = FALSE
  /\ sessionNet = {"/auth"}
  /\ lastNavigate = Navigation("Navigate", "/", "/auth")

\* the Inventory page has not loaded its products
Init == InitPages /\ inventoryProducts = <<>>

\* the Inventory page has loaded the products table
InitFilter == InitPages /\ inventoryProducts \in Catalogs

\* ------------------------------------------------------- page: catalog
\* fetchProducts, issued once at mount; error: toast and return, loading stays
fetchProducts(s, ok) ==
  /\ fetched[s] = "pending"
  /\ IF ok
     THEN /\ products' = [products EXCEPT ![s] = ProductRows(stock)]
          /\ loading' = [loading EXCEPT ![s] = FALSE]
          /\ fetched' = [fetched EXCEPT ![s] = "data"]
          /\ UNCHANGED toasts
     ELSE /\ toasts' = [toasts EXCEPT ![s] = @ \cup {"Error mengambil produk"}]
          /\ fetched' = [fetched EXCEPT ![s] = "error"]
          /\ UNCHANGED <<products, loading>>
  /\ UNCHANGED <<backend, cart, inv, net, elsewhere>>

\* --------------------------------------------------------- page: cart
\* click on the i-th product card
addToCart(s, i) ==
  /\ ~loading[s]
  /\ i \in DOMAIN products[s]
  /\ QtyBounded(AddToCartUpdate(cart[s], products[s][i]))
  /\ cart' = [cart EXCEPT ![s] = AddToCartUpdate(cart[s], products[s][i])]
  /\ UNCHANGED <<backend, products, loading, fetched, toasts, inv, net, elsewhere>>

removeFromCart(s, productId) ==
  /\ InCart(cart[s], productId)
  /\ cart' = [cart EXCEPT ![s] = RemoveFromCartUpdate(cart[s], productId)]
  /\ UNCHANGED <<backend, products, loading, fetched, toasts, inv, net, elsewhere>>

updateQuantity(s, productId, delta) ==
  /\ InCart(cart[s], productId)
  /\ delta # 0
  /\ QtyBounded(UpdateQuantityUpdate(cart[s], productId, delta))
  /\ cart' = [cart EXCEPT ![s] = UpdateQuantityUpdate(cart[s], productId, delta)]
  /\ UNCHANGED <<backend, products, loading, fetched, toasts, inv, net, elsewhere>>

\* ---------------------------------------------------- page: completeSale
Range(f) == {f[i] : i \in DOMAIN f}

Req(c, op, idx, value) == [call |-> c, op |-> op, idx |-> idx, value |-> value]

Awaiting(pc) == pc \in {"getUser", "sales.insert", "sale_items.insert", "products.update"}

\* mutant of ReturnsEarly: the empty-cart guard is missing
NeverReturnsEarly(cartSnap) == FALSE

\* if (cart.length === 0) return;
ReturnsEarly(cartSnap) == Len(cartSnap) = 0

\* mutant of NotSignedIn: the check of the user is missing
AlwaysSignedIn(user) == FALSE

\* if (!user)
NotSignedIn(user) == user = NoUser

\* mutant of Throws: the error of a response is ignored
NeverThrows(ok) == FALSE

\* if (saleError) throw saleError / itemsError / updateError
Throws(ok) == ~ok

\* the row passed to from("sales").insert
SaleRow(userId, cartSnap) ==
  [cashier_id |-> userId, total_amount |-> total(cartSnap),
   payment_method |-> "cash", status |-> "completed"]

\* mutant of SalesInsert: upsert on (cashier_id, total_amount) instead of insert
SalesUpsert(tbl, row) ==
  IF \E i \in DOMAIN tbl : tbl[i].cashier_id = row.cashier_id
                            /\ tbl[i].total_amount = row.total_amount
  THEN LET i == CHOOSE j \in DOMAIN tbl : tbl[j].cashier_id = row.cashier_id
                                          /\ tbl[j].total_amount = row.total_amount
       IN [tbl |-> tbl, row |-> tbl[i]]
  ELSE LET new == [id |-> saleSeq + 1, cashier_id |-> row.cashier_id,
                   total_amount |-> row.total_amount,
                   payment_method |-> row.payment_method, status |-> row.status,
                   created_at |-> now]
       IN [tbl |-> Append(tbl, new), row |-> new]

\* from("sales").insert(row).select().single(): the table afterwards and the
\* inserted row with its generated identifier
SalesInsert(tbl, row) ==
  LET new == [id |-> saleSeq + 1, cashier_id |-> row.cashier_id,
              total_amount |-> row.total_amount,
              payment_method |-> row.payment_method, status |-> row.status,
              created_at |-> now]
  IN [tbl |-> Append(tbl, new), row |-> new]

\* mutant of SaleItemRows: the line subtotal is the unit price
SaleItemRowsUnitSubtotal(cartSnap, saleId) ==
  { [sale_id |-> saleId, product_id |-> cartSnap[i].id,
     quantity |-> cartSnap[i].quantity, unit_price |-> cartSnap[i].Harga,
     subtotal |-> cartSnap[i].Harga] : i \in DOMAIN cartSnap }

\* mutant of SaleItemRows: the unit price column gets the line's subtotal
SaleItemRowsSubtotalAsPrice(cartSnap, saleId) ==
  { [sale_id |-> saleId, product_id |-> cartSnap[i].id,
     quantity |-> cartSnap[i].quantity, unit_price |-> cartSnap[i].subtotal,
     subtotal |-> cartSnap[i].subtotal] : i \in DOMAIN cartSnap }

\* const saleItems = cart.map(item => ({sale_id: sale.id, ...}))
SaleItemRows(cartSnap, saleId) ==
  { [sale_id |-> saleId, product_id |-> cartSnap[i].id,
     quantity |-> cartSnap[i].quantity, unit_price |-> cartSnap[i].Harga,
     subtotal |-> cartSnap[i].subtotal] : i \in DOMAIN cartSnap }

\* mutant of StockAfterSale: the quantity sold is not subtracted
StockAfterSaleNoDecrement(item) == item.stock_quantity

\* update({ stock_quantity: item.stock_quantity - item.quantity })
StockAfterSale(item) == item.stock_quantity - item.quantity

\* mutant of IssueStock: every stock update is issued at once (Promise.all)
IssueStockAll(c, cartSnap, k) ==
  IF k = 1
  THEN [i \in DOMAIN cartSnap |-> Req(c, "products.update", i, StockAfterSale(cartSnap[i]))]
  ELSE <<>>

\* for (const item of cart) { await ...update(...) }: the requests issued
\* when the loop reaches its k-th iteration
IssueStock(c, cartSnap, k) ==
  IF k <= Len(cartSnap)
  THEN << Req(c, "products.update", k, StockAfterSale(cartSnap[k])) >>
  ELSE <<>>

IssuedIds(cartSnap, reqs) == [i \in DOMAIN reqs |-> cartSnap[reqs[i].idx].id]

\* bookkeeping, not program state: an invocation's `alone` records that no
\* other invocation's stock update was applied while it was running, `base`
\* the backend stock when it was called, `issued` the writes it has issued
\* and `acked` how many of them resolved without error
Others(c, r) ==
  [d \in Calls |->
     IF d # c /\ r.op = "products.update" /\ Awaiting(inv[d].pc)
     THEN [inv[d] EXCEPT !.alone = FALSE]
     ELSE inv[d]]

\* mutant of Catch: the cart is cleared in a finally block
CatchClearsCart(c, r) ==
  /\ inv' = [inv EXCEPT ![c].pc = "failed"]
  /\ toasts' = [toasts EXCEPT ![inv[c].sess] = @ \cup {"Error menyelesaikan penjualan"}]
  /\ net' = net \ {r}
  /\ cart' = [cart EXCEPT ![inv[c].sess] = <<>>]

\* the catch block of completeSale
Catch(c, r) ==
  /\ inv' = [inv EXCEPT ![c].pc = "failed"]
  /\ toasts' = [toasts EXCEPT ![inv[c].sess] = @ \cup {"Error menyelesaikan penjualan"}]
  /\ net' = net \ {r}
  /\ UNCHANGED cart

\* toast success; printReceipt(); setCart([])
Finish(c, r, rec) ==
  /\ inv' = [Others(c, r) EXCEPT ![c] = [rec EXCEPT !.pc = "done"]]
  /\ toasts' = [toasts EXCEPT ![inv[c].sess] = @ \cup {"Penjualan selesai"}]
  /\ cart' = [cart EXCEPT ![inv[c].sess] = <<>>]
  /\ net' = net \ {r}

\* the stock loop from its k-th iteration on
StockLoop(c, r, rec, k) ==
  IF k > Len(rec.cart)
  THEN Finish(c, r, rec)
  ELSE LET reqs == IssueStock(c, rec.cart, k)
       IN /\ inv' = [Others(c, r) EXCEPT ![c] =
                       [rec EXCEPT !.pc = "products.update",
                                   !.issued = @ \o IssuedIds(rec.cart, reqs)]]
          /\ net' = (net \ {r}) \cup Range(reqs)
          /\ UNCHANGED <<cart, toasts>>

FreeCall == CHOOSE c \in Calls : inv[c].pc = "idle" /\ \A d \in Calls : d < c => inv[d].pc # "idle"

\* completeSale up to its first await
completeSale(s) ==
  /\ \E c \in Calls : inv[c].pc = "idle"
  /\ LET c == FreeCall
     IN IF ReturnsEarly(cart[s])
        THEN /\ inv' = [inv EXCEPT ![c] = [IdleInv EXCEPT !.pc = "returned", !.sess = s]]
             /\ UNCHANGED net
        ELSE /\ inv' = [inv EXCEPT ![c] =
                          [IdleInv EXCEPT !.pc = "getUser", !.sess = s,
                                          !.cart = cart[s], !.base = stock]]
             /\ net' = net \cup {Req(c, "getUser", 0, 0)}
  /\ UNCHANGED <<backend, products, loading, fetched, cart, toasts, elsewhere>>

\* await supabase.auth.getUser() resolves; then the sale insert is issued
getUserResolve(c, user) ==
  /\ inv[c].pc = "getUser"
  /\ Req(c, "getUser", 0, 0) \in net
  /\ user \in {NoUser, UserOf[inv[c].sess]}
  /\ IF NotSignedIn(user)
     THEN /\ inv' = [inv EXCEPT ![c].pc = "noUser"]
          /\ toasts' = [toasts EXCEPT ![inv[c].sess] = @ \cup {"Error"}]
          /\ net' = net \ {Req(c, "getUser", 0, 0)}
     ELSE /\ inv' = [inv EXCEPT ![c].pc = "sales.insert", ![c].user = user,
                                ![c].issued = <<"sales">>]
          /\ net' = (net \ {Req(c, "getUser", 0, 0)})
                      \cup {Req(c, "sales.insert", 0, total(inv[c].cart))}
          /\ UNCHANGED toasts
  /\ UNCHANGED <<backend, products, loading, fetched, cart, elsewhere>>

\* the sale insert resolves; then the sale_items insert is issued
salesInsertResolve(c, ok) ==
  \E r \in net :
    /\ r.call = c /\ r.op = "sales.insert"
    /\ LET res == IF ok THEN SalesInsert(sales, SaleRow(inv[c].user, inv[c].cart))
                        ELSE [tbl |-> sales, row |-> [id |-> 0]]
       IN /\ sales' = res.tbl
          /\ saleSeq' = IF ok THEN saleSeq + 1 ELSE saleSeq
          /\ IF Throws(ok)
             THEN Catch(c, r)
             ELSE /\ inv' = [inv EXCEPT ![c].pc = "sale_items.insert",
                                        ![c].sale = res.row.id,
                                        ![c].acked = @ + 1,
                                        ![c].issued = Append(@, "sale_items")]
                  /\ net' = (net \ {r}) \cup {Req(c, "sale_items.insert", 0, res.row.id)}
                  /\ UNCHANGED <<cart, toasts>>
    /\ UNCHANGED <<stock, sale_items, products, loading, fetched, elsewhere>>

\* the sale_items insert resolves; then the stock loop starts
saleItemsInsertResolve(c, ok) ==
  \E r \in net :
    /\ r.call = c /\ r.op = "sale_items.insert"
    /\ sale_items' = IF ok THEN sale_items \cup SaleItemRows(inv[c].cart, r.value)
                           ELSE sale_items
    /\ IF Throws(ok)
       THEN Catch(c, r)
       ELSE StockLoop(c, r, [inv[c] EXCEPT !.acked = @ + 1], 1)
    /\ UNCHANGED <<stock, sales, saleSeq, products, loading, fetched, elsewhere>>

\* a stock update resolves; then the loop goes on or completeSale finishes
stockUpdateResolve(c, ok) ==
  \E r \in net :
    /\ r.call = c /\ r.op = "products.update"
    /\ stock' = IF ok THEN [stock EXCEPT ![inv[c].cart[r.idx].id] = r.value] ELSE stock
    /\ IF Throws(ok)
       THEN Catch(c, r)
       ELSE StockLoop(c, r,
                      [inv[c] EXCEPT !.acked = @ + 1, !.k = @ + 1],
                      inv[c].k + 2)
    /\ UNCHANGED <<sales, sale_items, saleSeq, products, loading, fetched, elsewhere>>

\* ------------------------------------------------------ shifts: inputs
\* what an <Input type="number"> holds when the button is clicked, as a
\* sequence of characters: the empty string (also the value of an entry
\* that is no number) or a number literal
CashInputs == { <<>>, <<"-", "5">>, <<"0">>, <<"1", "5">> }
NotesInputs == {"", "ok"}

Digits == {"0", "1", "5"}
DigitValue(ch) == CASE ch = "0" -> 0 [] ch = "1" -> 1 [] ch = "5" -> 5

RECURSIVE DigitPrefix(_)
DigitPrefix(str) ==
  IF str = <<>> \/ Head(str) \notin Digits THEN <<>>
  ELSE <<Head(str)>> \o DigitPrefix(Tail(str))

RECURSIVE DecimalValue(_)
DecimalValue(ds) ==
  IF ds = <<>> THEN 0
  ELSE 10 * DecimalValue(SubSeq(ds, 1, Len(ds) - 1)) + DigitValue(ds[Len(ds)])

\* mutant of parseFloat: the sign is skipped
parseFloatUnsigned(str) ==
  LET neg == str # <<>> /\ Head(str) = "-"
      ds == DigitPrefix(IF neg THEN Tail(str) ELSE str)
  IN IF ds = <<>> THEN [isNaN |-> TRUE, value |-> 0]
     ELSE [isNaN |-> FALSE, value |-> DecimalValue(ds)]

\* parseFloat: an optional sign and the longest prefix of digits; NaN when
\* there is no digit
parseFloat(str) ==
  LET neg == str # <<>> /\ Head(str) = "-"
      ds == DigitPrefix(IF neg THEN Tail(str) ELSE str)
  IN IF ds = <<>> THEN [isNaN |-> TRUE, value |-> 0]
     ELSE [isNaN |-> FALSE,
           value |-> IF neg THEN 0 - DecimalValue(ds) ELSE DecimalValue(ds)]

\* mutant of InvalidAmount: only NaN is rejected
InvalidAmountNaNOnly(cashAmount) == cashAmount.isNaN

\* isNaN(cashAmount) || cashAmount < 0
InvalidAmount(cashAmount) == cashAmount.isNaN \/ cashAmount.value < 0

Tags == 1..MaxShifts
TagsInUse(t) == {r.tag : r \in {q \in shiftNet : q.tab = t}}
HasFreeTag(t) == Tags \ TagsInUse(t) # {}
FreeTag(t) == CHOOSE g \in Tags \ TagsInUse(t) : \A h \in Tags \ TagsInUse(t) : g <= h

\* select("*").order("start_time", { ascending: false }); rows with equal
\* start_time come newest id first
RECURSIVE Ordered(_)
Ordered(rows) ==
  IF rows = {} THEN <<>>
  ELSE LET first == CHOOSE x \in rows :
                      \A y \in rows : \/ x.start_time > y.start_time
                                      \/ x.start_time = y.start_time /\ x.id >= y.id
       IN <<first>> \o Ordered(rows \ {first})

\* data.find(shift => shift.status === "open")
FindOpen(list) ==
  IF \E i \in DOMAIN list : list[i].status = "open"
  THEN list[CHOOSE i \in DOMAIN list :
              /\ list[i].status = "open"
              /\ \A j \in DOMAIN list : list[j].status = "open" => i <= j]
  ELSE NoShift

\* no dialog of the tab is open (an open dialog covers the page)
NoDialog(t) == ~startShiftOpen[t] /\ ~endShiftOpen[t] /\ ~deleteDialogOpen[t]

ShiftToast(t, title) == shiftToasts' = [shiftToasts EXCEPT ![t] = title]

\* ---------------------------------------------------- shifts: handlers
\* fetchShifts resolves
fetchShifts(t, ok) ==
  /\ FetchReq(t) \in shiftNet
  /\ shiftNet' = shiftNet \ {FetchReq(t)}
  /\ IF ok
     THEN LET data == Ordered(shiftsTable)
              active == FindOpen(data)
          IN /\ shifts' = [shifts EXCEPT ![t] = data]
             /\ activeShift' = IF active # NoShift
                               THEN [activeShift EXCEPT ![t] = active]
                               ELSE activeShift
             /\ shiftLoading' = [shiftLoading EXCEPT ![t] = FALSE]
             /\ UNCHANGED shiftToasts
     ELSE /\ ShiftToast(t, "Error fetching shifts")
          /\ UNCHANGED <<shifts, activeShift, shiftLoading>>
  /\ UNCHANGED <<now, shiftsTable, shiftSeq, startShiftOpen, endShiftOpen,
                 deleteDialogOpen, shiftToDelete, outsideShifts>>

\* the "Start Shift" button of the "Start New Shift" card
openStartShift(t) ==
  /\ ~shiftLoading[t] /\ NoDialog(t)
  /\ activeShift[t] = NoShift
  /\ startShiftOpen' = [startShiftOpen EXCEPT ![t] = TRUE]
  /\ UNCHANGED <<now, shiftsTable, shiftSeq, shiftNet, shifts, activeShift,
                 shiftLoading, endShiftOpen, deleteDialogOpen, shiftToDelete,
                 shiftToasts, outsideShifts>>

\* shifts whose insert is still to come
StartsPending == {r \in shiftNet : r.op \in {"getUser", "shifts.insert"}}

\* startShift up to its first await
startShift(t, startingCash) ==
  /\ ~shiftLoading[t] /\ startShiftOpen[t]
  /\ HasFreeTag(t)
  /\ shiftSeq + Cardinality(StartsPending) < MaxShifts
  /\ LET cashAmount == parseFloat(startingCash)
     IN IF InvalidAmount(cashAmount)
        THEN /\ ShiftToast(t, "Invalid amount")
             /\ UNCHANGED shiftNet
        ELSE /\ shiftNet' = shiftNet \cup
                  {SReq(t, FreeTag(t), "getUser", NoShift, cashAmount.value,
                        0, 0, NoNotes, shifts[t])}
             /\ UNCHANGED shiftToasts
  /\ UNCHANGED <<now, shiftsTable, shiftSeq, shifts, activeShift, shiftLoading,
                 startShiftOpen, endShiftOpen, deleteDialogOpen, shiftToDelete,
                 outsideShifts>>

\* the row startShift inserts
NewShiftRow(userId, cashAmount) ==
  [NoShift EXCEPT !.cashier_id = userId, !.start_time = now,
                  !.starting_cash = cashAmount, !.status = "open"]

\* startShift: getUser resolves; then the insert is issued
startShiftGetUser(t, user) ==
  \E r \in shiftNet :
    /\ r.tab = t /\ r.op = "getUser"
    /\ IF user = NoUser
       THEN /\ shiftNet' = shiftNet \ {r}
            /\ ShiftToast(t, "Error")
       ELSE /\ shiftNet' = (shiftNet \ {r}) \cup
                 {[r EXCEPT !.op = "shifts.insert",
                            !.row = NewShiftRow(user, r.cash)]}
            /\ UNCHANGED shiftToasts
    /\ UNCHANGED <<now, shiftsTable, shiftSeq, shifts, activeShift, shiftLoading,
                   startShiftOpen, endShiftOpen, deleteDialogOpen, shiftToDelete,
                   outsideShifts>>

\* startShift: the insert resolves
startShiftInsert(t, ok) ==
  \E r \in shiftNet :
    /\ r.tab = t /\ r.op = "shifts.insert"
    /\ shiftNet' = shiftNet \ {r}
    /\ IF ok
       THEN LET newShift == [r.row EXCEPT !.id = shiftSeq + 1]
            IN /\ shiftsTable' = shiftsTable \cup {newShift}
               /\ shiftSeq' = shiftSeq + 1
               /\ activeShift' = [activeShift EXCEPT ![t] = newShift]
               /\ shifts' = [shifts EXCEPT ![t] = <<newShift>> \o r.list]
               /\ startShiftOpen' = [startShiftOpen EXCEPT ![t] = FALSE]
               /\ ShiftToast(t, "Shift started")
       ELSE /\ ShiftToast(t, "Error starting shift")
            /\ UNCHANGED <<shiftsTable, shiftSeq, activeShift, shifts, startShiftOpen>>
    /\ UNCHANGED <<now, shiftLoading, endShiftOpen, deleteDialogOpen,
                   shiftToDelete, outsideShifts>>

\* the "End Shift" button of the "Active Shift" card
openEndShift(t) ==
  /\ ~shiftLoading[t] /\ NoDialog(t)
  /\ activeShift[t] # NoShift
  /\ endShiftOpen' = [endShiftOpen EXCEPT ![t] = TRUE]
  /\ UNCHANGED <<now, shiftsTable, shiftSeq, shiftNet, shifts, activeShift,
                 shiftLoading, startShiftOpen, deleteDialogOpen, shiftToDelete,
                 shiftToasts, outsideShifts>>

\* endShift up to its first await: the sales query is built with
\* lte("created_at", new Date().toISOString())
endShift(t, endingCash, shiftNotes) ==
  /\ ~shiftLoading[t] /\ endShiftOpen[t]
  /\ HasFreeTag(t)
  /\ LET cashAmount == parseFloat(endingCash)
     IN IF activeShift[t] = NoShift
        THEN UNCHANGED <<shiftNet, shiftToasts>>
        ELSE IF InvalidAmount(cashAmount)
        THEN /\ ShiftToast(t, "Invalid amount")
             /\ UNCHANGED shiftNet
        ELSE /\ shiftNet' = shiftNet \cup
                  {SReq(t, FreeTag(t), "sales.select", activeShift[t],
                        cashAmount.value, now, 0,
                        IF shiftNotes = "" THEN NoNotes ELSE shiftNotes,
                        shifts[t])}
             /\ UNCHANGED shiftToasts
  /\ UNCHANGED <<now, shiftsTable, shiftSeq, shifts, activeShift, shiftLoading,
                 startShiftOpen, endShiftOpen, deleteDialogOpen, shiftToDelete,
                 outsideShifts>>

\* select("total_amount").gte("created_at", from).lte("created_at", to)
SalesBetween(from, to) ==
  {i \in DOMAIN sales : sales[i].created_at >= from /\ sales[i].created_at <= to}

\* salesData.reduce((sum, sale) => sum + sale.total_amount, 0)
RECURSIVE SumTotalAmount(_)
SumTotalAmount(idx) ==
  IF idx = {} THEN 0
  ELSE LET i == CHOOSE x \in idx : TRUE
       IN sales[i].total_amount + SumTotalAmount(idx \ {i})

\* endShift: the sales query resolves; then the update is issued with
\* end_time: new Date().toISOString()
endShiftSales(t, ok) ==
  \E r \in shiftNet :
    /\ r.tab = t /\ r.op = "sales.select"
    /\ IF ok
       THEN /\ shiftNet' = (shiftNet \ {r}) \cup
                 {[r EXCEPT !.op = "shifts.update",
                            !.sum = SumTotalAmount(SalesBetween(r.row.start_time, r.time)),
                            !.time = now]}
            /\ UNCHANGED shiftToasts
       ELSE /\ shiftNet' = shiftNet \ {r}
            /\ ShiftToast(t, "Error ending shift")
    /\ UNCHANGED <<now, shiftsTable, shiftSeq, shifts, activeShift, shiftLoading,
                   startShiftOpen, endShiftOpen, deleteDialogOpen, shiftToDelete,
                   outsideShifts>>

\* mutant of ClosedShift: the update leaves the status column out
ClosedShiftKeepsStatus(row, r) ==
  [row EXCEPT !.end_time = r.time, !.ending_cash = r.cash,
              !.total_sales = r.sum, !.notes = r.notes]

\* update({ end_time, ending_cash, total_sales, notes, status: "closed" })
ClosedShift(row, r) ==
  [row EXCEPT !.end_time = r.time, !.ending_cash = r.cash,
              !.total_sales = r.sum, !.notes = r.notes, !.status = "closed"]

\* endShift: the update resolves (.eq("id", activeShift.id).select().single()
\* is an error when no row has that id)
endShiftUpdate(t, ok) ==
  \E r \in shiftNet :
    /\ r.tab = t /\ r.op = "shifts.update"
    /\ shiftNet' = shiftNet \ {r}
    /\ IF ok /\ \E row \in shiftsTable : row.id = r.row.id
       THEN LET old == CHOOSE row \in shiftsTable : row.id = r.row.id
                updatedShift == ClosedShift(old, r)
            IN /\ shiftsTable' = (shiftsTable \ {old}) \cup {updatedShift}
               /\ activeShift' = [activeShift EXCEPT ![t] = NoShift]
               /\ shifts' = [shifts EXCEPT ![t] =
                    [i \in DOMAIN r.list |->
                       IF r.list[i].id = r.row.id THEN updatedShift ELSE r.list[i]]]
               /\ endShiftOpen' = [endShiftOpen EXCEPT ![t] = FALSE]
               /\ ShiftToast(t, "Shift ended")
       ELSE /\ ShiftToast(t, "Error ending shift")
            /\ UNCHANGED <<shiftsTable, activeShift, shifts, endShiftOpen>>
    /\ UNCHANGED <<now, shiftSeq, shiftLoading, startShiftOpen, deleteDialogOpen,
                   shiftToDelete, outsideShifts>>

\* mutant of PreviousShifts: every shift is listed with its Delete button
PreviousShiftsAll(list) == list

\* shifts.filter(shift => shift.status !== "open"): the "Previous Shifts" list
PreviousShifts(list) == SelectSeq(list, LAMBDA shift : shift.status # "open")

\* the Delete button of the i-th listed shift
handleDeleteShift(t, i) ==
  /\ ~shiftLoading[t] /\ NoDialog(t)
  /\ i \in DOMAIN PreviousShifts(shifts[t])
  /\ shiftToDelete' = [shiftToDelete EXCEPT ![t] = PreviousShifts(shifts[t])[i]]
  /\ deleteDialogOpen' = [deleteDialogOpen EXCEPT ![t] = TRUE]
  /\ UNCHANGED <<now, shiftsTable, shiftSeq, shiftNet, shifts, activeShift,
                 shiftLoading, startShiftOpen, endShiftOpen, shiftToasts,
                 outsideShifts>>

\* confirmDelete up to its await; the AlertDialogAction closes the dialog
confirmDelete(t) ==
  /\ ~shiftLoading[t] /\ deleteDialogOpen[t]
  /\ HasFreeTag(t)
  /\ deleteDialogOpen' = [deleteDialogOpen EXCEPT ![t] = FALSE]
  /\ shiftNet' = IF shiftToDelete[t] = NoShift THEN shiftNet
                 ELSE shiftNet \cup
                        {SReq(t, FreeTag(t), "shifts.delete", shiftToDelete[t],
                              0, 0, 0, NoNotes, shifts[t])}
  /\ UNCHANGED <<now, shiftsTable, shiftSeq, shifts, activeShift, shiftLoading,
                 startShiftOpen, endShiftOpen, shiftToDelete, shiftToasts,
                 outsideShifts>>

\* confirmDelete: delete().eq("id", shiftToDelete.id) resolves
confirmDeleteResolve(t, ok) ==
  \E r \in shiftNet :
    /\ r.tab = t /\ r.op = "shifts.delete"
    /\ shiftNet' = shiftNet \ {r}
    /\ IF ok
       THEN /\ shiftsTable' = {row \in shiftsTable : row.id # r.row.id}
            /\ shifts' = [shifts EXCEPT ![t] =
                            SelectSeq(r.list, LAMBDA shift : shift.id # r.row.id)]
            /\ deleteDialogOpen' = [deleteDialogOpen EXCEPT ![t] = FALSE]
            /\ shiftToDelete' = [shiftToDelete EXCEPT ![t] = NoShift]
            /\ ShiftToast(t, "Shift deleted")
       ELSE /\ ShiftToast(t, "Error deleting shift")
            /\ UNCHANGED <<shiftsTable, shifts, deleteDialogOpen, shiftToDelete>>
    /\ UNCHANGED <<now, shiftSeq, activeShift, shiftLoading, startShiftOpen,
                   endShiftOpen, outsideShifts>>

\* time passes
Tick ==
  /\ now < MaxTime
  /\ now' = now + 1
  /\ UNCHANGED <<shiftsTable, shiftSeq, shiftNet, shifts, activeShift,
                 shiftLoading, startShiftOpen, endShiftOpen, deleteDialogOpen,
                 shiftToDelete, shiftToasts, outsideShifts>>

\* ------------------------------------------------------ inventory: filter
Lower(ch) == CASE ch = "A" -> "a" [] ch = "B" -> "b" [] OTHER -> ch

\* mutant of toLowerCase: the text is left as it is
toLowerCaseKeepsCase(str) == str

\* String.prototype.toLowerCase
toLowerCase(str) == [i \in DOMAIN str |-> Lower(str[i])]

\* String.prototype.includes
includes(str, sub) ==
  \E i \in 0..(Len(str) - Len(sub)) : SubSeq(str, i + 1, i + Len(sub)) = sub

matchesSearch(product) ==
  \/ includes(toLowerCase(product.name), toLowerCase(searchTerm))
  \/ includes(toLowerCase(product.sku), toLowerCase(searchTerm))
  \/ /\ product.category # NullText /\ product.category # <<>>
     /\ includes(toLowerCase(product.category), toLowerCase(searchTerm))

matchesCategory(product) ==
  selectedCategory = NullText \/ product.category = selectedCategory

\* mutant of matchesStock: the "out" bucket tests the "low" threshold
matchesStockOutAsLow(product) ==
  IF stockFilter = "low" THEN product.stock_quantity <= LowStock
  ELSE IF stockFilter = "out" THEN product.stock_quantity <= LowStock
  ELSE TRUE

matchesStock(product) ==
  IF stockFilter = "low" THEN product.stock_quantity <= LowStock
  ELSE IF stockFilter = "out" THEN product.stock_quantity = 0
  ELSE TRUE

\* const filteredProducts = products.filter(...)
filteredProducts ==
  SelectSeq(inventoryProducts,
            LAMBDA product : /\ matchesSearch(product)
                             /\ matchesCategory(product)
                             /\ matchesStock(product))

\* [...new Set(data.map(product => product.category).filter(Boolean))]
categories ==
  {inventoryProducts[i].category : i \in DOMAIN inventoryProducts} \ {NullText, <<>>}

\* onChange={(e) => setSearchTerm(e.target.value)}
setSearchTerm(value) ==
  /\ inventoryProducts # <<>>
  /\ searchTerm' = value
  /\ UNCHANGED <<inventoryProducts, selectedCategory, stockFilter, outsideInventory>>

handleStockFilter(filter) ==
  /\ inventoryProducts # <<>>
  /\ stockFilter' = filter
  /\ UNCHANGED <<inventoryProducts, searchTerm, selectedCategory, outsideInventory>>

handleCategoryFilter(category) ==
  /\ inventoryProducts # <<>>
  /\ selectedCategory' = category
  /\ UNCHANGED <<inventoryProducts, searchTerm, stockFilter, outsideInventory>>

\* ------------------------------------------------- page: inventory, add
\* what can be in the fields of the add form
SkuInputs == {<<>>, <<"x", "1">>, <<"x", "3">>}
NameInputs == {<<>>, <<"a">>, <<"b">>}
PriceInputs == {<<>>, <<"0">>, <<"5">>, <<"-", "5">>}
CategoryInputs == {<<>>, <<"c">>}

\* the fields of the add form drawn from the given texts
FormsOf(skus, names, prices, cats) ==
  {NewProduct(sku, name, price, <<>>, category) :
     sku \in skus, name \in names, price \in prices, category \in cats}

\* Number(text) of the text of an input of type number, which is empty or
\* a decimal numeral: Number("") is 0
ToNumber(text) ==
  IF text = <<>> THEN [isNaN |-> FALSE, value |-> 0] ELSE parseFloat(text)

\* const productToSubmit = {...newProduct, price: Number(...), stock_quantity: Number(...)}
productToSubmit(newProduct) ==
  [newProduct EXCEPT !.price = ToNumber(newProduct.price),
                     !.stock_quantity = ToNumber(newProduct.stock_quantity)]

\* !productToSubmit.sku || !productToSubmit.name || productToSubmit.price <= 0
ValidationFails(p) ==
  p.sku = <<>> \/ p.name = <<>> \/ (~p.price.isNaN /\ p.price.value <= 0)

\* the row passed to from('products').insert, with its generated id
InsertedProduct(id, p) ==
  [id |-> id, sku |-> p.sku, name |-> p.name, price |-> p.price.value,
   stock_quantity |-> IF p.stock_quantity.isNaN THEN 0 ELSE p.stock_quantity.value,
   category |-> IF p.category = <<>> THEN NullText ELSE p.category]

\* select('sku').eq('sku', sku).single(): data is the row when the request
\* succeeds and exactly one row matches, null otherwise; the error is dropped
existingSku(ok, sku) ==
  ok /\ Cardinality({i \in DOMAIN productRows : productRows[i].sku = sku}) = 1

CharRank(ch) == CASE ch = "a" -> 1 [] ch = "b" -> 2 [] OTHER -> 3

RECURSIVE TextLeq(_, _)
TextLeq(a, b) ==
  IF a = <<>> THEN TRUE
  ELSE IF b = <<>> THEN FALSE
  ELSE IF Head(a) = Head(b) THEN TextLeq(Tail(a), Tail(b))
  ELSE CharRank(Head(a)) < CharRank(Head(b))

RECURSIVE InsertByName(_, _)
InsertByName(row, rows) ==
  IF rows = <<>> THEN <<row>>
  ELSE IF TextLeq(Head(rows).name, row.name)
       THEN <<Head(rows)>> \o InsertByName(row, Tail(rows))
       ELSE <<row>> \o rows

RECURSIVE OrderByName(_)
\* .order("name")
OrderByName(rows) ==
  IF rows = <<>> THEN <<>>
  ELSE InsertByName(rows[Len(rows)], OrderByName(SubSeq(rows, 1, Len(rows) - 1)))

RECURSIVE UniqueCategories(_)
\* [...new Set(data.map(product => product.category).filter(Boolean))]
UniqueCategories(rows) ==
  IF rows = <<>> THEN <<>>
  ELSE LET before == UniqueCategories(SubSeq(rows, 1, Len(rows) - 1))
           cat == rows[Len(rows)].category
       IN IF cat \in {NullText, <<>>} \/ \E i \in DOMAIN before : before[i] = cat
          THEN before ELSE Append(before, cat)

\* requests of tab t other than the fetch
Submitting(t) == {r \in inventoryNet : r.tab = t /\ r.op # "products.select"}

\* the fetch issued by useEffect at mount resolves; an error returns before
\* setLoading(false)
fetchInventory(t, ok) ==
  \E r \in inventoryNet :
    /\ r.tab = t /\ r.op = "products.select"
    /\ inventoryNet' = inventoryNet \ {r}
    /\ IF ok
       THEN /\ tabProducts' = [tabProducts EXCEPT ![t] = OrderByName(productRows)]
            /\ tabCategories' =
                 [tabCategories EXCEPT ![t] = UniqueCategories(OrderByName(productRows))]
            /\ inventoryLoading' = [inventoryLoading EXCEPT ![t] = FALSE]
            /\ UNCHANGED inventoryToast
       ELSE /\ inventoryToast' = [inventoryToast EXCEPT ![t] = "Error fetching products"]
            /\ UNCHANGED <<tabProducts, tabCategories, inventoryLoading>>
    /\ UNCHANGED <<productRows, addProductOpen, isSubmitting, outsideAddProduct>>

\* the Add Product button, rendered once the page has left its loading
\* state: the form is reset and the dialog opens
handleAddProduct(t) ==
  /\ ~inventoryLoading[t]
  /\ ~addProductOpen[t]
  /\ addProductOpen' = [addProductOpen EXCEPT ![t] = TRUE]
  /\ UNCHANGED <<productRows, tabProducts, tabCategories, inventoryLoading,
                 isSubmitting, inventoryToast, inventoryNet, outsideAddProduct>>

\* Cancel, or onOpenChange={setAddProductOpen}
closeAddProduct(t) ==
  /\ addProductOpen[t]
  /\ addProductOpen' = [addProductOpen EXCEPT ![t] = FALSE]
  /\ UNCHANGED <<productRows, tabProducts, tabCategories, inventoryLoading,
                 isSubmitting, inventoryToast, inventoryNet, outsideAddProduct>>

\* handleSubmitProduct up to its first await, with newProduct as the form
\* holds it; the Save button is disabled while isSubmitting
handleSubmitProduct(t, newProduct) ==
  /\ addProductOpen[t] /\ ~isSubmitting[t]
  /\ Len(productRows) + Cardinality(UNION {Submitting(u) : u \in InventoryTabs})
       < MaxProducts
  /\ LET p == productToSubmit(newProduct)
     IN IF ValidationFails(p)
        THEN /\ inventoryToast' = [inventoryToast EXCEPT ![t] = "Validation Error"]
             /\ UNCHANGED <<isSubmitting, inventoryNet>>
        ELSE /\ isSubmitting' = [isSubmitting EXCEPT ![t] = TRUE]
             /\ inventoryNet' = inventoryNet \cup
                  {InventoryReq(t, "products.selectSku", p, tabProducts[t],
                                tabCategories[t])}
             /\ UNCHANGED inventoryToast
  /\ UNCHANGED <<productRows, tabProducts, tabCategories, inventoryLoading,
                 addProductOpen, outsideAddProduct>>

\* the lookup of the SKU resolves; the insert is issued when it gave no row
skuSelectResolve(t, ok) ==
  \E r \in inventoryNet :
    /\ r.tab = t /\ r.op = "products.selectSku"
    /\ IF existingSku(ok, r.form.sku)
       THEN /\ inventoryToast' = [inventoryToast EXCEPT ![t] = "Duplicate SKU"]
            /\ isSubmitting' = [isSubmitting EXCEPT ![t] = FALSE]
            /\ inventoryNet' = inventoryNet \ {r}
       ELSE /\ inventoryNet' = (inventoryNet \ {r}) \cup
                  {InventoryReq(t, "products.insert", r.form, r.list, r.cats)}
            /\ UNCHANGED <<inventoryToast, isSubmitting>>
    /\ UNCHANGED <<productRows, tabProducts, tabCategories, inventoryLoading,
                   addProductOpen, outsideAddProduct>>

\* the insert resolves; then the local lists, the toast and the dialog
productInsertResolve(t, ok) ==
  \E r \in inventoryNet :
    /\ r.tab = t /\ r.op = "products.insert"
    /\ inventoryNet' = inventoryNet \ {r}
    /\ isSubmitting' = [isSubmitting EXCEPT ![t] = FALSE]
    /\ IF ok
       THEN LET row == InsertedProduct(Len(productRows) + 1, r.form)
            IN /\ productRows' = Append(productRows, row)
               /\ tabProducts' = [tabProducts EXCEPT ![t] = Append(r.list, row)]
               /\ tabCategories' =
                    IF r.form.category # <<>>
                       /\ \A i \in DOMAIN r.cats : r.cats[i] # r.form.category
                    THEN [tabCategories EXCEPT ![t] = Append(r.cats, r.form.category)]
                    ELSE tabCategories
               /\ inventoryToast' = [inventoryToast EXCEPT ![t] = "Product Added"]
               /\ addProductOpen' = [addProductOpen EXCEPT ![t] = FALSE]
       ELSE /\ inventoryToast' = [inventoryToast EXCEPT ![t] = "Error Adding Product"]
            /\ UNCHANGED <<productRows, tabProducts, tabCategories, addProductOpen>>
    /\ UNCHANGED <<inventoryLoading, outsideAddProduct>>

\* ------------------------------------------------------ pages: session
\* the events of supabase.auth.onAuthStateChange and whether they carry a
\* session
AuthEvents == {"SIGNED_IN", "SIGNED_OUT", "TOKEN_REFRESHED"}
SessionOf(event) == event # "SIGNED_OUT"

\* navigate(to) called by `by` of page `at`: the router shows `to`, and a
\* page that gets mounted issues getSession() in its effect
Goto(to, by, at, answered) ==
  /\ route' = to
  /\ sessionNet' = (sessionNet \ answered) \cup (IF to # route THEN {to} ELSE {})
  /\ lastNavigate' = Navigation(by, at, to)

\* mutant of NoSession: the check of the session is missing
NoSessionNever(session) == FALSE

\* if (!session)
NoSession(session) == ~session

\* the user opens a page: a feature card of the dashboard, a Back button,
\* or the address bar
openPage(to) ==
  /\ to # route
  /\ Goto(to, "user", route, {})
  /\ UNCHANGED <<signedIn, outsideAuth>>

\* checkAuth of a protected page after getSession(): without a session the
\* page navigates to /auth and returns
checkAuth(page) ==
  /\ page \in ProtectedRoutes /\ page \in sessionNet
  /\ IF NoSession(signedIn)
     THEN Goto("/auth", "checkAuth", page, {page})
     ELSE /\ sessionNet' = sessionNet \ {page}
          /\ UNCHANGED <<route, lastNavigate>>
  /\ UNCHANGED <<signedIn, outsideAuth>>

\* checkSession of the Auth page after getSession(): an error returns, a
\* session navigates to the dashboard
checkSession(ok) ==
  /\ "/auth" \in sessionNet
  /\ IF ok /\ signedIn
     THEN Goto("/dashboard", "checkSession", "/auth", {"/auth"})
     ELSE /\ sessionNet' = sessionNet \ {"/auth"}
          /\ UNCHANGED <<route, lastNavigate>>
  /\ UNCHANGED <<signedIn, outsideAuth>>

\* the listener the Auth page subscribes: where it navigates to
AuthListener(event, session) ==
  IF event = "SIGNED_IN" /\ session THEN "/dashboard"
  ELSE IF event = "SIGNED_OUT" THEN "/auth"
  ELSE "none"

\* the listener the Dashboard subscribes: where it navigates to
DashboardListener(event, session) ==
  IF event = "SIGNED_OUT" \/ ~session THEN "/auth" ELSE "none"

\* the auth client raises an event; the page that is mounted and has
\* subscribed a listener runs it
onAuthStateChange(event) ==
  /\ event = "TOKEN_REFRESHED" => signedIn
  /\ signedIn' = SessionOf(event)
  /\ LET to == IF route = "/auth" THEN AuthListener(event, SessionOf(event))
               ELSE IF route = "/dashboard"
                    THEN DashboardListener(event, SessionOf(event))
                    ELSE "none"
     IN IF to = "none" THEN UNCHANGED <<route, sessionNet, lastNavigate>>
        ELSE Goto(to, "listener", route, {})
  /\ UNCHANGED outsideAuth

\* ------------------------------------------------------------ page: sales
RECURSIVE Reverse(_)
\* .order("created_at", { ascending: false }): rows are stored in the order
\* of their insertion, which is the order of created_at
Reverse(rows) ==
  IF rows = <<>> THEN <<>> ELSE Append(Reverse(Tail(rows)), Head(rows))

\* mutant of DeleteThrows: the error of a response is ignored
DeleteNeverThrows(ok) == FALSE

\* if (checkError) throw checkError / itemsError / saleError
DeleteThrows(ok) == ~ok

\* the fetch issued by useEffect at mount resolves; finally setLoading(false)
fetchSales(ok) ==
  \E r \in salesNet :
    /\ r.op = "sales.select"
    /\ salesNet' = salesNet \ {r}
    /\ IF ok
       THEN salesList' = Reverse(sales) /\ UNCHANGED salesToast
       ELSE salesToast' = "Error fetching sales" /\ UNCHANGED salesList
    /\ salesLoading' = FALSE
    /\ UNCHANGED <<saleDeleteDialogOpen, saleToDelete, isDeleting>>
    /\ UNCHANGED <<sales, sale_items, outsideSales>>

\* the Delete button of row i; it is disabled while that sale is being
\* deleted and is not reachable under the open dialog
handleDeleteSale(i) ==
  /\ i \in DOMAIN salesList
  /\ ~saleDeleteDialogOpen
  /\ ~(isDeleting /\ saleToDelete = salesList[i].id)
  /\ saleToDelete' = salesList[i].id
  /\ saleDeleteDialogOpen' = TRUE
  /\ UNCHANGED <<salesList, salesLoading, isDeleting, salesToast, salesNet>>
  /\ UNCHANGED <<sales, sale_items, outsideSales>>

\* onOpenChange={setDeleteDialogOpen}: the dialog is dismissed
dismissDeleteDialog ==
  /\ saleDeleteDialogOpen
  /\ saleDeleteDialogOpen' = FALSE
  /\ UNCHANGED <<salesList, salesLoading, saleToDelete, isDeleting, salesToast,
                 salesNet>>
  /\ UNCHANGED <<sales, sale_items, outsideSales>>

\* confirmDelete of the Sales page up to its first await: the Delete button
\* of the dialog, disabled while isDeleting
confirmDeleteSale ==
  /\ saleDeleteDialogOpen /\ ~isDeleting
  /\ saleToDelete # 0
  /\ isDeleting' = TRUE
  /\ salesNet' = salesNet \cup {SalesReq("sale_items.select", saleToDelete)}
  /\ UNCHANGED <<salesList, salesLoading, saleDeleteDialogOpen, saleToDelete,
                 salesToast>>
  /\ UNCHANGED <<sales, sale_items, outsideSales>>

\* catch: the toast; finally: setIsDeleting(false)
DeleteCatch(r) ==
  /\ salesToast' = "Error deleting sale"
  /\ isDeleting' = FALSE
  /\ salesNet' = salesNet \ {r}
  /\ UNCHANGED <<salesList, saleDeleteDialogOpen, saleToDelete>>

\* the next request of confirmDelete is issued
DeleteIssue(r, op) ==
  /\ salesNet' = (salesNet \ {r}) \cup {SalesReq(op, r.sale)}
  /\ UNCHANGED <<salesList, saleDeleteDialogOpen, saleToDelete, isDeleting,
                 salesToast>>

\* the lookup of the sale's items resolves; the items are deleted when
\* there are any, otherwise the sale is deleted straight away
saleItemsSelectResolve(ok) ==
  \E r \in salesNet :
    /\ r.op = "sale_items.select"
    /\ IF DeleteThrows(ok) THEN DeleteCatch(r)
       ELSE IF \E it \in sale_items : it.sale_id = r.sale
            THEN DeleteIssue(r, "sale_items.delete")
            ELSE DeleteIssue(r, "sales.delete")
    /\ UNCHANGED <<salesLoading, sales, sale_items, outsideSales>>

\* from("sale_items").delete().eq("sale_id", id) resolves
saleItemsDeleteResolve(ok) ==
  \E r \in salesNet :
    /\ r.op = "sale_items.delete"
    /\ sale_items' = IF ok THEN {it \in sale_items : it.sale_id # r.sale}
                           ELSE sale_items
    /\ IF DeleteThrows(ok) THEN DeleteCatch(r)
       ELSE DeleteIssue(r, "sales.delete")
    /\ UNCHANGED <<salesLoading, sales, outsideSales>>

\* sales.filter(sale => sale.id !== saleToDelete.id)
WithoutSale(rows, id) ==
  LET Keep(row) == row.id # id IN SelectSeq(rows, Keep)

\* from("sales").delete().eq("id", id) resolves; then the local list, the
\* dialog and the toast
saleDeleteResolve(ok) ==
  \E r \in salesNet :
    /\ r.op = "sales.delete"
    /\ sales' = IF ok THEN WithoutSale(sales, r.sale) ELSE sales
    /\ IF DeleteThrows(ok) THEN DeleteCatch(r)
       ELSE /\ salesList' = WithoutSale(salesList, r.sale)
            /\ saleDeleteDialogOpen' = FALSE
            /\ saleToDelete' = 0
            /\ salesToast' = "Sale deleted"
            /\ isDeleting' = FALSE
            /\ salesNet' = salesNet \ {r}
    /\ UNCHANGED <<salesLoading, sale_items, outsideSales>>

\* ------------------------------------------------------------ properties
IsPrefix(a, b) == Len(a) <= Len(b) /\ \A i \in DOMAIN a : a[i] = b[i]

RECURSIVE SumQtyPrice(_)
SumQtyPrice(c) ==
  IF c = <<>> THEN 0 ELSE c[1].quantity * c[1].Harga + SumQtyPrice(Tail(c))

MyReqs(n, c) == {r \in n : r.call = c}

\* C1: in every state the total of each cart is the sum of quantity x unit
\* price over its entries, and every entry's subtotal is its quantity x its
\* unit price
CartTotalIsSumOfLines ==
  \A s \in Sessions :
    /\ total(cart[s]) = SumQtyPrice(cart[s])
    /\ \A i \in DOMAIN cart[s] :
         cart[s][i].subtotal = cart[s][i].quantity * cart[s][i].Harga

CartTotalWitness ==
  \E s \in Sessions :
    /\ Len(cart[s]) = 2
    /\ cart[s][1].id = "B" /\ cart[s][1].quantity = 2
    /\ cart[s][2].id = "A" /\ cart[s][2].quantity = 1
    /\ total(cart[s]) = 20

\* C2: every cart entry has quantity >= 1 in every state, and an entry leaves
\* a cart only in a removeFromCart step for it or in the step that finishes a
\* checkout of that page successfully
QuantityAtLeastOne ==
  /\ [](\A s \in Sessions : \A i \in DOMAIN cart[s] : cart[s][i].quantity >= 1)
  /\ [][\A s \in Sessions, p \in ProductIds :
          (InCart(cart[s], p) /\ ~InCart(cart'[s], p))
            => \/ removeFromCart(s, p)
               \/ \E c \in Calls : /\ inv[c].sess = s
                                   /\ inv[c].pc = "products.update"
                                   /\ inv'[c].pc = "done"]_vars

QuantityClampedWitness ==
  \E s \in Sessions :
    /\ Len(cart[s]) = 2
    /\ cart[s][1].quantity = 1
    /\ cart[s][2].quantity = MaxQty

\* what addToCart(product) does to a cart, stated entry by entry
AddToCartPost(old, new, product) ==
  IF \E j \in DOMAIN old : old[j].id = product.id
  THEN /\ Len(new) = Len(old)
       /\ \A j \in DOMAIN old :
            IF old[j].id = product.id
            THEN /\ new[j].id = old[j].id
                 /\ new[j].Harga = old[j].Harga
                 /\ new[j].stock_quantity = old[j].stock_quantity
                 /\ new[j].quantity = old[j].quantity + 1
                 /\ new[j].subtotal = new[j].quantity * new[j].Harga
            ELSE new[j] = old[j]
  ELSE /\ Len(new) = Len(old) + 1
       /\ SubSeq(new, 1, Len(old)) = old
       /\ new[Len(new)].id = product.id
       /\ new[Len(new)].quantity = 1
       /\ new[Len(new)].subtotal = product.Harga

\* C3: every addToCart step increments the quantity of the product's entry
\* by one and recomputes its subtotal when the product is in the cart, appends
\* an entry with quantity one otherwise, and leaves every other entry as it was
AddToCartEffect ==
  [][\A s \in Sessions, i \in 1..Cardinality(ProductIds) :
       addToCart(s, i) => AddToCartPost(cart[s], cart'[s], products[s][i])]_vars

AddToCartWitness ==
  \E s \in Sessions :
    /\ Len(cart[s]) = 2
    /\ cart[s][1].id = "A" /\ cart[s][1].quantity = 2 /\ cart[s][1].subtotal = 20
    /\ cart[s][2].id = "B" /\ cart[s][2].quantity = 1

\* the writes of one checkout, in the order the claim gives
ExpectedWrites(cartSnap) ==
  <<"sales", "sale_items">> \o [i \in DOMAIN cartSnap |-> cartSnap[i].id]

\* C4: an invocation never has two requests in flight; the writes it has
\* issued are a prefix of: sale insert, sale_items insert, one stock update
\* per cart line in cart order; and every write before the last one issued
\* has resolved without error
WritesInSequence ==
  \A c \in Calls :
    /\ Cardinality(MyReqs(net, c)) <= 1
    /\ IsPrefix(inv[c].issued, ExpectedWrites(inv[c].cart))
    /\ inv[c].acked <= Len(inv[c].issued)
    /\ inv[c].acked >= Len(inv[c].issued) - 1
    /\ \A r \in MyReqs(net, c) :
         r.op # "getUser" =>
           /\ inv[c].acked = Len(inv[c].issued) - 1
           /\ r.op = "sales.insert" => Len(inv[c].issued) = 1
           /\ r.op = "sale_items.insert" => Len(inv[c].issued) = 2
           /\ r.op = "products.update" => Len(inv[c].issued) = 2 + r.idx

WritesInSequenceWitness ==
  \E r \in net : r.op = "products.update" /\ r.idx = 2 /\ inv[r.call].acked = 3

Fresh(rec) ==
  \A i \in DOMAIN rec.cart : rec.cart[i].stock_quantity = rec.base[rec.cart[i].id]

\* the backend after a checkout whose every step succeeded
SalePost(rec, sls, items, stk) ==
  /\ Cardinality({i \in DOMAIN sls : sls[i].id = rec.sale}) = 1
  /\ Cardinality({i \in DOMAIN rec.issued : rec.issued[i] = "sales"}) = 1
  /\ \A i \in DOMAIN sls :
       sls[i].id = rec.sale =>
         /\ sls[i].total_amount = SumQtyPrice(rec.cart)
         /\ sls[i].payment_method = "cash"
         /\ sls[i].status = "completed"
         /\ sls[i].cashier_id = rec.user
  /\ LET mine == {it \in items : it.sale_id = rec.sale}
     IN /\ Cardinality(mine) = Len(rec.cart)
        /\ \A i \in DOMAIN rec.cart :
             [sale_id |-> rec.sale, product_id |-> rec.cart[i].id,
              quantity |-> rec.cart[i].quantity,
              unit_price |-> Harga[rec.cart[i].id],
              subtotal |-> rec.cart[i].quantity * Harga[rec.cart[i].id]] \in mine
  /\ (Fresh(rec) /\ rec.alone) =>
       \A i \in DOMAIN rec.cart :
         stk[rec.cart[i].id] = rec.base[rec.cart[i].id] - rec.cart[i].quantity

\* C5: the step that finishes a checkout successfully leaves exactly one Sale
\* of that checkout with the cart's total, cash, completed; one SaleItem per
\* cart line with the line's quantity, unit price and subtotal; and, when the
\* cart's stock figures were those of the backend and no other checkout wrote
\* stock meanwhile, each sold product's stock lowered by the quantity sold
CheckoutEffect ==
  [][\A c \in Calls :
       (inv[c].pc # "done" /\ inv'[c].pc = "done")
         => SalePost(inv'[c], sales', sale_items', stock')]_vars

CheckoutWitness ==
  \E c \in Calls :
    /\ inv[c].pc = "done"
    /\ Len(inv[c].cart) = 2
    /\ inv[c].cart[1].id = "A" /\ inv[c].cart[1].quantity = 2
    /\ inv[c].cart[2].id = "B" /\ inv[c].cart[2].quantity = 1
    /\ Len(sales) = 1 /\ sales[1].total_amount = 25
    /\ stock["A"] = InitStock - 2 /\ stock["B"] = InitStock - 1
    /\ {it.subtotal : it \in sale_items} = {20, 5}

\* C6: a step in which a write of a checkout fails changes no backend table,
\* ends the invocation in its catch block with the error notification and
\* leaves no request of it in flight; afterwards the invocation never moves
\* again, and no step ever removes a Sale or a SaleItem
FailureAborts ==
  [][\A c \in Calls :
       /\ (\/ salesInsertResolve(c, FALSE)
           \/ saleItemsInsertResolve(c, FALSE)
           \/ stockUpdateResolve(c, FALSE))
            => /\ inv'[c].pc = "failed"
               /\ inv'[c].issued = inv[c].issued
               /\ MyReqs(net', c) = {}
               /\ backend' = backend
               /\ "Error menyelesaikan penjualan" \in toasts'[inv[c].sess]
       /\ inv[c].pc = "failed"
            => /\ inv'[c] = inv[c]
               /\ MyReqs(net', c) = {}
       /\ IsPrefix(sales, sales')
       /\ sale_items \subseteq sale_items']_vars

PartialCommitWitness ==
  \E c \in Calls :
    /\ inv[c].pc = "failed"
    /\ Len(inv[c].cart) = 2
    /\ inv[c].k = 1
    /\ \E i \in DOMAIN sales : sales[i].id = inv[c].sale
    /\ stock[inv[c].cart[1].id] = inv[c].cart[1].stock_quantity - inv[c].cart[1].quantity
    /\ stock[inv[c].cart[2].id] = inv[c].cart[2].stock_quantity

\* C7: an invocation called with an empty cart returns at once: it never
\* issues a request, and the step that calls it changes neither the backend,
\* nor the requests in flight, nor the page
EmptyCartNoOp ==
  /\ [](\A c \in Calls :
          (inv[c].pc # "idle" /\ inv[c].cart = <<>>)
            => /\ inv[c].pc = "returned"
               /\ inv[c].issued = <<>>
               /\ MyReqs(net, c) = {})
  /\ [][\A s \in Sessions :
          (completeSale(s) /\ cart[s] = <<>>)
            => UNCHANGED <<backend, net, cart, products, loading, fetched, toasts>>]_vars

EmptyCartWitness ==
  \E c \in Calls : inv[c].pc = "returned" /\ sales = <<>> /\ net = {}

\* C8: two invocations of one page with the same cart whose sale inserts both
\* succeeded have created two different Sales, both present, and each one
\* whose sale_items insert succeeded has its own SaleItems
RepeatCreatesDuplicateSale ==
  \A c1, c2 \in Calls :
    (/\ c1 # c2
     /\ inv[c1].sess = inv[c2].sess
     /\ inv[c1].cart = inv[c2].cart
     /\ inv[c1].acked >= 1
     /\ inv[c2].acked >= 1)
      => /\ inv[c1].sale # inv[c2].sale
         /\ \E i \in DOMAIN sales : sales[i].id = inv[c1].sale
         /\ \E i \in DOMAIN sales : sales[i].id = inv[c2].sale
         /\ inv[c1].acked >= 2 =>
              Cardinality({it \in sale_items : it.sale_id = inv[c1].sale})
                = Len(inv[c1].cart)

DuplicateSaleWitness ==
  \E c1, c2 \in Calls :
    /\ c1 # c2
    /\ inv[c1].sess = inv[c2].sess
    /\ inv[c1].cart = inv[c2].cart
    /\ inv[c1].pc = "products.update" /\ inv[c2].pc = "products.update"
    /\ Len(sales) = 2
    /\ sales[1].total_amount = sales[2].total_amount
    /\ {it.sale_id : it \in sale_items} = {inv[c1].sale, inv[c2].sale}

\* the invocation has had a stock update of product p applied
Wrote(c, p) == \E i \in 1..inv[c].k : inv[c].cart[i].id = p

QtyOf(c, p) ==
  LET i == CHOOSE j \in DOMAIN inv[c].cart : inv[c].cart[j].id = p
  IN inv[c].cart[i].quantity

LoadedOf(c, p) ==
  LET i == CHOOSE j \in DOMAIN inv[c].cart : inv[c].cart[j].id = p
  IN inv[c].cart[i].stock_quantity

\* two finished checkouts of p from different pages, both from stock S
RacedOn(c1, c2, p) ==
  /\ c1 # c2
  /\ inv[c1].sess # inv[c2].sess
  /\ inv[c1].pc = "done" /\ inv[c2].pc = "done"
  /\ InCart(inv[c1].cart, p) /\ InCart(inv[c2].cart, p)
  /\ LoadedOf(c1, p) = LoadedOf(c2, p)
  /\ \A c3 \in Calls \ {c1, c2} : ~Wrote(c3, p)

\* C9: when two pages that loaded the same stock S of a product have both
\* completed a sale of it (q1 and q2) and nobody else wrote it, the backend
\* stock is S - q1 or S - q2, never S - q1 - q2
LostUpdate ==
  \A c1, c2 \in Calls, p \in ProductIds :
    RacedOn(c1, c2, p)
      => /\ stock[p] \in {LoadedOf(c1, p) - QtyOf(c1, p), LoadedOf(c1, p) - QtyOf(c2, p)}
         /\ stock[p] # LoadedOf(c1, p) - QtyOf(c1, p) - QtyOf(c2, p)

LostUpdateWitness ==
  \E c1, c2 \in Calls :
    /\ RacedOn(c1, c2, "A")
    /\ QtyOf(c1, "A") = 1 /\ QtyOf(c2, "A") = 2
    /\ LoadedOf(c1, "A") = InitStock
    /\ stock["A"] = InitStock - 1

\* C10: every product's backend stock is non-negative in every state
StockNeverNegative == \A p \in ProductIds : stock[p] >= 0

\* the sum of the subtotals of the sale_items rows that reference a sale
RECURSIVE SumOfItems(_)
SumOfItems(rows) ==
  IF rows = {} THEN 0
  ELSE LET it == CHOOSE x \in rows : TRUE
       IN it.subtotal + SumOfItems(rows \ {it})

ItemsOf(saleId) == {it \in sale_items : it.sale_id = saleId}

\* C11: in every backend state each sale's total_amount is the sum of the
\* subtotals of the sale_items rows that reference it
SaleTotalIsSumOfItems ==
  \A i \in DOMAIN sales : sales[i].total_amount = SumOfItems(ItemsOf(sales[i].id))

\* a step of checkout c: its position in completeSale changes
StepOf(c) == inv'[c].pc # inv[c].pc \/ inv'[c].k # inv[c].k

\* C12: the step of completeSale that ends it with success sets the page's
\* cart to the empty cart, and every other step of completeSale (the early
\* returns and the catch block included) leaves every cart as it is
CartEmptiedIffSuccess ==
  [][\A c \in Calls :
       StepOf(c) =>
         IF inv'[c].pc = "done"
         THEN cart' = [cart EXCEPT ![inv'[c].sess] = <<>>]
         ELSE cart' = cart]_vars

\* a checkout failed after its sale was written and the page still shows the
\* cart the checkout was called with
CartKeptOnFailureWitness ==
  \E c \in Calls :
    /\ inv[c].pc = "failed" /\ inv[c].acked >= 1
    /\ inv[c].cart # <<>>
    /\ cart[inv[c].sess] = inv[c].cart

\* an entry that is no number (the empty field) or a negative number
NotAnAmount(a) == a = <<>> \/ Head(a) = "-"

\* the number a valid entry denotes
AmountEntered(a) == CASE a = <<"0">> -> 0 [] a = <<"1", "5">> -> 15

\* C13: startShift with an entry that is no number or is negative changes no
\* backend table, issues no request, leaves activeShift and shifts as they
\* are and raises "Invalid amount"; with a valid entry it asks for the user,
\* an authenticated user makes it issue one insert of an open shift with
\* the amount entered and the clock's time as start_time, and the insert
\* adds exactly that one row, under a new id, with the other columns unset
StartShiftEffect ==
  [][\A t \in Tabs :
       /\ \A a \in CashInputs :
            startShift(t, a) =>
              IF NotAnAmount(a)
              THEN /\ UNCHANGED <<shiftsTable, shiftSeq, shiftNet, activeShift, shifts>>
                   /\ shiftToasts'[t] = "Invalid amount"
              ELSE /\ UNCHANGED <<shiftsTable, shiftSeq, activeShift, shifts>>
                   /\ \E r \in shiftNet' \ shiftNet :
                        /\ shiftNet' = shiftNet \cup {r}
                        /\ r.op = "getUser" /\ r.cash = AmountEntered(a)
       /\ startShiftGetUser(t, UserOf["s1"]) =>
            /\ UNCHANGED shiftsTable
            /\ \E r \in shiftNet, q \in shiftNet' :
                 /\ shiftNet' \ {q} = shiftNet \ {r}
                 /\ q.op = "shifts.insert"
                 /\ q.row = [NoShift EXCEPT !.cashier_id = UserOf["s1"],
                                            !.status = "open",
                                            !.starting_cash = r.cash,
                                            !.start_time = now]
       /\ startShiftInsert(t, TRUE) =>
            \E r \in shiftNet \ shiftNet' :
              /\ \A old \in shiftsTable : old.id # shiftSeq'
              /\ shiftsTable' = shiftsTable \cup {[r.row EXCEPT !.id = shiftSeq']}
              /\ Cardinality(shiftsTable') = Cardinality(shiftsTable) + 1]_vars

\* after a shift was started with 15 at time 1, an invalid entry has been
\* rejected in the start dialog
StartShiftWitness ==
  /\ startShiftOpen["t1"] /\ shiftToasts["t1"] = "Invalid amount"
  /\ shiftNet = {FetchReq("t2")}
  /\ \E row \in shiftsTable : row.starting_cash = 15 /\ row.start_time = 1

WindowSum(from, to) ==
  SumTotalAmount({i \in DOMAIN sales : from <= sales[i].created_at
                                       /\ sales[i].created_at <= to})

\* C15: when endShift's update succeeds, the total_sales it writes is the sum
\* of total_amount over the sales whose timestamp lies within the shift's
\* [start_time, end_time], also when sales were committed while endShift ran
TotalSalesIsWindowSum ==
  [][\A t \in Tabs :
       endShiftUpdate(t, TRUE) /\ shiftsTable' # shiftsTable =>
         \A row \in shiftsTable' \ shiftsTable :
           row.total_sales = WindowSum(row.start_time, row.end_time)]_vars

\* C16: a shifts row is created with status open; a write to an existing
\* row sets status closed together with end_time, ending_cash and
\* total_sales; a closed row never gets another status
StatusOnlyOpenToClosed ==
  [][\A new \in shiftsTable' :
       IF \E old \in shiftsTable : old.id = new.id
       THEN LET old == CHOOSE o \in shiftsTable : o.id = new.id
            IN /\ old.status = "closed" => new.status = "closed"
               /\ new # old =>
                    /\ new.status = "closed"
                    /\ new.end_time # Null /\ new.ending_cash # Null
                    /\ new.total_sales # Null
                    /\ new.id = old.id /\ new.start_time = old.start_time
                    /\ new.starting_cash = old.starting_cash
       ELSE new.status = "open"]_vars

\* a shift is closed at the backend while another tab, which still shows it
\* as the active shift, has its own closing update in flight
ClosedAgainWitness ==
  \E row \in shiftsTable, r \in shiftNet :
    /\ row.status = "closed"
    /\ r.op = "shifts.update" /\ r.row.id = row.id
    /\ activeShift[r.tab].id = row.id

\* C17: in every backend state each cashier has at most one shift with
\* status open
AtMostOneOpenShift ==
  \A row1, row2 \in shiftsTable :
    /\ row1.cashier_id = row2.cashier_id
    /\ row1.status = "open" /\ row2.status = "open"
    => row1 = row2

\* the backend row with the id of a shift held by a page, if there is one
BackendRows(shift) == {row \in shiftsTable : row.id = shift.id}

\* C18: the shift chosen for deletion, and the target of every delete request
\* in flight, is never a shift whose backend status is open, and every row
\* that leaves the shifts table was closed
DeleteOnlyClosed ==
  /\ [](/\ \A t \in Tabs : \A row \in BackendRows(shiftToDelete[t]) :
             row.status # "open"
        /\ \A r \in shiftNet :
             r.op = "shifts.delete" =>
               \A row \in BackendRows(r.row) : row.status # "open")
  /\ [][\A row \in shiftsTable :
          (\A new \in shiftsTable' : new.id # row.id) => row.status = "closed"]_vars

\* a tab has deleted a closed shift while another shift is open at the backend
DeleteOnlyClosedWitness ==
  \E t \in Tabs :
    /\ shiftToasts[t] = "Shift deleted"
    /\ shiftSeq = 2 /\ Cardinality(shiftsTable) = 1
    /\ \E row \in shiftsTable : row.status = "open"

\* two characters that are the same letter, whatever their case
SameLetter(x, y) ==
  \/ x = y
  \/ {x, y} = {"a", "A"}
  \/ {x, y} = {"b", "B"}

\* term occurs in text at some offset, letter by letter, whatever the case
ContainsCI(text, term) ==
  \E k \in 0..(Len(text) - Len(term)) :
    \A j \in 1..Len(term) : SameLetter(text[k + j], term[j])

InBucket(product) ==
  \/ stockFilter = "all"
  \/ stockFilter = "low" /\ product.stock_quantity <= 10
  \/ stockFilter = "out" /\ product.stock_quantity = 0

Loaded == {inventoryProducts[i] : i \in DOMAIN inventoryProducts}
Returned == {filteredProducts[i] : i \in DOMAIN filteredProducts}

\* C19 (as claimed): with the bucket "out" and no category selected the
\* filter returns exactly the products whose stock_quantity is 0, whatever
\* the search text
OutBucketWhateverSearch ==
  stockFilter = "out" /\ selectedCategory = NullText =>
    Returned = {p \in Loaded : p.stock_quantity = 0}

\* C19: with the bucket "out" and no category selected the filter returns
\* exactly the products whose stock_quantity is 0 and whose name, SKU or
\* category contains the search text, whatever the case
OutBucketWithSearch ==
  stockFilter = "out" /\ selectedCategory = NullText =>
    Returned = {p \in Loaded :
                  /\ p.stock_quantity = 0
                  /\ \/ ContainsCI(p.name, searchTerm)
                     \/ ContainsCI(p.sku, searchTerm)
                     \/ p.category # NullText /\ ContainsCI(p.category, searchTerm)}

\* bucket "out", no category, a search text typed: one product that is out
\* of stock is returned and another one that is out of stock is not
OutBucketWitness ==
  /\ stockFilter = "out" /\ selectedCategory = NullText /\ searchTerm # <<>>
  /\ \E p \in Returned : p.stock_quantity = 0
  /\ \E p \in Loaded \ Returned : p.stock_quantity = 0

\* C20 (as claimed): the filter returns exactly the products whose name or
\* SKU contains the search text whatever the case, whose category is the
\* selected one (or none is selected) and whose stock is in the bucket
FilterNameOrSku ==
  Returned = {p \in Loaded :
                /\ ContainsCI(p.name, searchTerm) \/ ContainsCI(p.sku, searchTerm)
                /\ selectedCategory = NullText \/ p.category = selectedCategory
                /\ InBucket(p)}

\* C20: the filter returns exactly the products whose name, SKU or category
\* contains the search text whatever the case, whose category is the
\* selected one (or none is selected) and whose stock is in the bucket
FilterNameSkuOrCategory ==
  Returned = {p \in Loaded :
                /\ \/ ContainsCI(p.name, searchTerm)
                   \/ ContainsCI(p.sku, searchTerm)
                   \/ p.category # NullText /\ ContainsCI(p.category, searchTerm)
                /\ selectedCategory = NullText \/ p.category = selectedCategory
                /\ InBucket(p)}

\* a category and the bucket "low" are chosen and a search text in capitals
\* is typed: a product is returned whose category holds the text in another
\* case while its name and SKU do not hold it, and a product with more than
\* 10 in stock is left out
FilterWitness ==
  /\ stockFilter = "low" /\ selectedCategory # NullText
  /\ searchTerm = <<"B", "A">>
  /\ \E p \in Returned :
       /\ ~ContainsCI(p.name, searchTerm) /\ ~ContainsCI(p.sku, searchTerm)
       /\ p.category = <<"B", "a">>
  /\ \E p \in Loaded \ Returned : p.stock_quantity > 10

SuccessiveCheckoutsSubtractBoth ==
  \A c1, c2 \in Calls :
    /\ c1 < c2
    /\ inv[c1].pc = "done" /\ inv[c2].pc = "done"
    /\ inv[c1].sess = inv[c2].sess
    /\ InCart(inv[c1].cart, "A") /\ InCart(inv[c2].cart, "A")
    /\ \A c3 \in Calls \ {c1, c2} : ~Wrote(c3, "A")
    => stock["A"] = InitStock - (QtyOf(c1, "A") + QtyOf(c2, "A"))

\* C27: in every state a cart holds at most one entry per product id
OneEntryPerProduct ==
  \A s \in Sessions : \A i, j \in DOMAIN cart[s] :
    cart[s][i].id = cart[s][j].id => i = j

\* both products are in the cart and the second one has been added twice
OneEntryPerProductWitness ==
  \E s \in Sessions :
    /\ Len(cart[s]) = 2
    /\ cart[s][1].id # cart[s][2].id
    /\ cart[s][2].quantity = 2

\* C28: when getUser gives no user to a completeSale called with a non-empty
\* cart, that step changes no backend table and no cart, issues no request
\* and raises the "Error" notification; the call never issues a write
NoUserNoWrite ==
  /\ [](\A c \in Calls :
          inv[c].pc = "noUser"
            => /\ inv[c].issued = <<>>
               /\ MyReqs(net, c) = {}
               /\ "Error" \in toasts[inv[c].sess])
  /\ [][\A c \in Calls :
          getUserResolve(c, NoUser)
            => /\ UNCHANGED <<backend, cart>>
               /\ MyReqs(net', c) = {}
               /\ inv'[c].pc = "noUser"
               /\ "Error" \in toasts'[inv[c].sess]]_vars

\* completeSale has ended for want of a user: the cart it was called with is
\* still the page's cart and the backend is as it was at the start
NoUserWitness ==
  \E c \in Calls :
    /\ inv[c].pc = "noUser"
    /\ inv[c].cart # <<>> /\ cart[inv[c].sess] = inv[c].cart
    /\ sales = <<>> /\ sale_items = {}
    /\ stock = [p \in ProductIds |-> InitStock]

\* C21: in every state every sale_items row references a row of sales: the
\* deletion of a sale leaves no item of it behind
NoOrphanSaleItems ==
  \A it \in sale_items : \E i \in DOMAIN sales : sales[i].id = it.sale_id

\* C29: a request to delete a sale is issued only by the step at which the
\* lookup of its items succeeded and found none, or at which the delete of
\* its items succeeded; a failed lookup or a failed delete of the items ends
\* confirmDelete: no request of it is left, the sales table, the local list
\* and the dialog are as before, isDeleting is false and the error is shown
SaleDeleteOnlyAfterItems ==
  /\ [][\A r \in salesNet' \ salesNet :
          r.op = "sales.delete"
            => \/ /\ saleItemsSelectResolve(TRUE)
                  /\ \A it \in sale_items : it.sale_id # r.sale
               \/ /\ saleItemsDeleteResolve(TRUE)
                  /\ \A it \in sale_items' : it.sale_id # r.sale]_vars
  /\ [][(saleItemsSelectResolve(FALSE) \/ saleItemsDeleteResolve(FALSE))
          => /\ \A q \in salesNet' : q.op = "sales.select"
             /\ UNCHANGED <<sales, salesList, saleDeleteDialogOpen>>
             /\ isDeleting' = FALSE
             /\ salesToast' = "Error deleting sale"]_vars

\* a deletion of a sale that has items has failed: the sale and its items
\* are in the backend, the sale is in the list and the dialog is open
SaleDeleteFailedWitness ==
  /\ salesToast = "Error deleting sale"
  /\ ~isDeleting /\ saleDeleteDialogOpen
  /\ \A q \in salesNet : q.op = "sales.select"
  /\ \E i \in DOMAIN sales : sales[i].id = saleToDelete
  /\ \E i \in DOMAIN salesList : salesList[i].id = saleToDelete
  /\ \E it \in sale_items : it.sale_id = saleToDelete

\* C22: in every state of the backend no two products have the same SKU
UniqueSku ==
  \A i, j \in DOMAIN productRows :
    productRows[i].sku = productRows[j].sku => i = j

\* the submission of tab t ends at this step with the notification `title`:
\* no request of it is left and the table and the local lists are as before
RejectedWith(t, title) ==
  /\ \A r \in inventoryNet' : r.tab = t => r.op = "products.select"
  /\ UNCHANGED <<productRows, tabProducts, tabCategories>>
  /\ inventoryToast'[t] = title

\* C23: a submission with an empty SKU, an empty name or a price <= 0 ends
\* at once, and a submission whose SKU is in the products table when the
\* lookup is answered ends at that answer: no insert is issued, the table
\* and the local product and category lists are unchanged and a
\* notification is raised
RejectedSubmissionInsertsNothing ==
  [][\A t \in InventoryTabs :
       /\ \A f \in FormsOf(SkuInputs, NameInputs, PriceInputs, CategoryInputs) :
            (/\ handleSubmitProduct(t, f)
             /\ f.sku = <<>> \/ f.name = <<>> \/ ToNumber(f.price).value <= 0)
              => RejectedWith(t, "Validation Error")
       /\ \A r \in Submitting(t) : \A ok \in BOOLEAN :
            (/\ r.op = "products.selectSku"
             /\ skuSelectResolve(t, ok)
             /\ \E i \in DOMAIN productRows : productRows[i].sku = r.form.sku)
              => RejectedWith(t, "Duplicate SKU")]_vars

\* C24: when getSession() answers a protected page with no session, that
\* page navigates to /auth; on the Auth page a SIGNED_IN event with a
\* session navigates to /dashboard and a SIGNED_OUT event to /auth
NoSessionGoesToAuth ==
  [][/\ \A page \in ProtectedRoutes :
          (checkAuth(page) /\ ~signedIn)
            => /\ route' = "/auth"
               /\ lastNavigate' = Navigation("checkAuth", page, "/auth")
     /\ \A event \in AuthEvents :
          (onAuthStateChange(event) /\ route = "/auth")
            => /\ (event = "SIGNED_IN" /\ signedIn')
                    => /\ route' = "/dashboard"
                       /\ lastNavigate' = Navigation("listener", "/auth", "/dashboard")
               /\ event = "SIGNED_OUT"
                    => /\ route' = "/auth"
                       /\ lastNavigate' = Navigation("listener", "/auth", "/auth")]_vars

\* the POS page, opened without a session, has sent the browser to /auth
NoSessionWitness ==
  /\ lastNavigate = Navigation("checkAuth", "/pos", "/auth")
  /\ route = "/auth" /\ ~signedIn

\* C30: on the POS, Shifts, Inventory and Sales pages, once the fetch issued
\* at mount has been answered, with data or with an error, the page is out
\* of its loading state (no later step of a page sets loading)
InitialFetchEndsLoading ==
  /\ \A s \in Sessions : fetched[s] # "pending" => ~loading[s]
  /\ \A t \in Tabs : FetchReq(t) \notin shiftNet => ~shiftLoading[t]
  /\ \A t \in InventoryTabs : ProductsFetch(t) \notin inventoryNet => ~inventoryLoading[t]
  /\ SalesReq("sales.select", 0) \notin salesNet => ~salesLoading

\* ------------------------------------------------------------------ Next
\* whether "complete sale" may be clicked on a page while a checkout is
\* awaiting a response: "never", "pages" (only a checkout of another page),
\* "always" (also one of the same page: a double click)
MayOverlap(mode, samePage) ==
  \/ mode = "always"
  \/ mode = "pages" /\ ~samePage

\* the steps of the pages in S, with product cards 1..cards clickable and
\* at most `calls` checkouts; outcomes are the results a request may have
\* (TRUE: data, FALSE: error or no user)
NextOf(S, cards, calls, mode, outcomes) ==
  \/ \E s \in S, ok \in outcomes : fetchProducts(s, ok)
  \/ \E s \in S, i \in 1..cards : addToCart(s, i)
  \/ \E s \in S, p \in ProductIds : removeFromCart(s, p)
  \/ \E s \in S, p \in ProductIds, d \in Deltas : updateQuantity(s, p, d)
  \/ \E s \in S : /\ inv[calls].pc = "idle"
                  /\ \A c \in Calls :
                       Awaiting(inv[c].pc) => MayOverlap(mode, inv[c].sess = s)
                  /\ completeSale(s)
  \/ \E c \in Calls, ok \in outcomes :
       getUserResolve(c, IF ok THEN UserOf[inv[c].sess] ELSE NoUser)
  \/ \E c \in Calls, ok \in outcomes : salesInsertResolve(c, ok)
  \/ \E c \in Calls, ok \in outcomes : saleItemsInsertResolve(c, ok)
  \/ \E c \in Calls, ok \in outcomes : stockUpdateResolve(c, ok)

\* one POS page, the whole catalog, one checkout, requests may fail
Next == NextOf({"s1"}, Cardinality(ProductIds), 1, "never", BOOLEAN)

Spec == Init /\ [][Next]_vars

\* one POS page selling the first product of the catalog, MaxCalls checkouts
\* that may overlap (double click), requests may fail
NextRepeat == NextOf({"s1"}, 1, MaxCalls, "always", BOOLEAN)

SpecRepeat == Init /\ [][NextRepeat]_vars

\* two POS pages selling the first product of the catalog, MaxCalls
\* checkouts, overlapping between the pages, every request succeeds
NextTwo == NextOf(Sessions, 1, MaxCalls, "pages", {TRUE})

SpecTwo == Init /\ [][NextTwo]_vars

\* one POS page selling the first product of the catalog, MaxCalls checkouts
\* one after the other, every request succeeds
NextSuccessive == NextOf({"s1"}, 1, MaxCalls, "never", {TRUE})

SpecSuccessive == Init /\ [][NextSuccessive]_vars

\* the steps of the Shifts tabs in T: mount, starting a shift, ending a
\* shift with the amounts and notes that may be entered, and deleting a
\* shift; outcomes are the results a request may have, and a button is
\* clicked only while fewer than k handler calls of the tab are in flight
Busy(t, k) == Cardinality(TagsInUse(t)) >= k

FetchSteps(T, outcomes) == \E t \in T, ok \in outcomes : fetchShifts(t, ok)

StartSteps(T, amounts, outcomes, k) ==
  \/ \E t \in T : openStartShift(t)
  \/ \E t \in T, a \in amounts : ~Busy(t, k) /\ startShift(t, a)
  \/ \E t \in T, ok \in outcomes :
       startShiftGetUser(t, IF ok THEN UserOf["s1"] ELSE NoUser)
  \/ \E t \in T, ok \in outcomes : startShiftInsert(t, ok)

EndSteps(T, amounts, notes, outcomes, k) ==
  \/ \E t \in T : openEndShift(t)
  \/ \E t \in T, a \in amounts, n \in notes : ~Busy(t, k) /\ endShift(t, a, n)
  \/ \E t \in T, ok \in outcomes : endShiftSales(t, ok)
  \/ \E t \in T, ok \in outcomes : endShiftUpdate(t, ok)

DeleteSteps(T, outcomes, k) ==
  \/ \E t \in T, i \in 1..MaxShifts : handleDeleteShift(t, i)
  \/ \E t \in T : ~Busy(t, k) /\ confirmDelete(t)
  \/ \E t \in T, ok \in outcomes : confirmDeleteResolve(t, ok)

\* one Shifts tab, every amount, requests may fail, one call at a time
NextShifts ==
  \/ FetchSteps({"t1"}, BOOLEAN)
  \/ StartSteps({"t1"}, CashInputs, BOOLEAN, 1)
  \/ EndSteps({"t1"}, CashInputs, {""}, BOOLEAN, 1)
  \/ Tick

SpecShifts == Init /\ [][NextShifts]_vars

\* two Shifts tabs of the cashier, a valid amount, every request succeeds
NextTabs ==
  \/ FetchSteps(Tabs, {TRUE})
  \/ StartSteps(Tabs, {<<"1", "5">>}, {TRUE}, 1)
  \/ EndSteps(Tabs, {<<"1", "5">>}, {""}, {TRUE}, 1)
  \/ DeleteSteps(Tabs, {TRUE}, 1)

SpecTabs == Init /\ [][NextTabs]_vars

\* one Shifts tab ending shifts with a valid amount and any notes while one
\* POS page commits a sale of the first product; every request succeeds
NextShiftSales ==
  \/ FetchSteps({"t1"}, {TRUE})
  \/ StartSteps({"t1"}, {<<"1", "5">>}, {TRUE}, 1)
  \/ EndSteps({"t1"}, {<<"1", "5">>}, NotesInputs, {TRUE}, 1)
  \/ Tick
  \/ NextOf({"s1"}, 1, 1, "never", {TRUE})

SpecShiftSales == Init /\ [][NextShiftSales]_vars

\* the Inventory page with its products loaded: typing a search text and
\* choosing a stock bucket and a category
\* the steps of the Sales page
SalesSteps(outcomes) ==
  \/ \E ok \in outcomes : fetchSales(ok)
  \/ \E i \in 1..MaxCalls : handleDeleteSale(i)
  \/ dismissDeleteDialog
  \/ confirmDeleteSale
  \/ \E ok \in outcomes : saleItemsSelectResolve(ok)
  \/ \E ok \in outcomes : saleItemsDeleteResolve(ok)
  \/ \E ok \in outcomes : saleDeleteResolve(ok)

\* one POS page with one checkout, which succeeds, and the Sales page
NextSales == NextOf({"s1"}, 1, 1, "never", {TRUE}) \/ SalesSteps(BOOLEAN)

SpecSales == Init /\ [][NextSales]_vars

\* the add-product steps of the Inventory tabs T
AddSteps(T, forms, outcomes) ==
  \E t \in T :
    \/ \E ok \in outcomes : fetchInventory(t, ok)
    \/ handleAddProduct(t)
    \/ closeAddProduct(t)
    \/ \E newProduct \in forms : handleSubmitProduct(t, newProduct)
    \/ \E ok \in outcomes : skuSelectResolve(t, ok)
    \/ \E ok \in outcomes : productInsertResolve(t, ok)

\* one Inventory tab, every text of the form, requests may fail
NextAdd ==
  AddSteps({"i1"}, FormsOf(SkuInputs, NameInputs, PriceInputs, CategoryInputs), BOOLEAN)

SpecAdd == Init /\ [][NextAdd]_vars

\* two Inventory tabs adding products of one name and price, requests succeed
NextAddTabs ==
  AddSteps(InventoryTabs, FormsOf(SkuInputs, {<<"a">>}, {<<"5">>}, {<<>>}), {TRUE})

SpecAddTabs == Init /\ [][NextAddTabs]_vars

\* the router, the session checks of the pages and the auth events
NextAuth ==
  \/ \E to \in Routes : openPage(to)
  \/ \E page \in ProtectedRoutes : checkAuth(page)
  \/ \E ok \in BOOLEAN : checkSession(ok)
  \/ \E event \in AuthEvents : onAuthStateChange(event)

SpecAuth == Init /\ [][NextAuth]_vars

NextFilter ==
  \/ \E value \in Terms : setSearchTerm(value)
  \/ \E filter \in {"all", "low", "out"} : handleStockFilter(filter)
  \/ \E category \in categories \cup {NullText} : handleCategoryFilter(category)

SpecFilter == InitFilter /\ [][NextFilter]_vars

====
